---- MODULE Spec2Model ----
(***************************************************************************)
(* UrbanAirspaceSim: the time-extended A* planner, the conflict detector,  *)
(* the CBS high-level solver and the auction of src/main_script.py, and    *)
(* the Airspace container of src/airspace/airspace.py and the occupancy    *)
(* model of src/airspace/core.py, as state machines.                       *)
(*                                                                         *)
(* Conventions.  A cell is <<row, col>>, 0-based as in the source.  A grid *)
(* is a sequence of rows of "." and "#".  A path is a sequence of cells;   *)
(* path[t + 1] is the cell held at time t.  Python's None is NoPath (the   *)
(* empty sequence) for a path, NoPos for a cell and NoAgent for an agent   *)
(* id.  A constraint is a record with every key of the source's dicts; a   *)
(* key the dict lacks holds NoPos.                                         *)
(***************************************************************************)
EXTENDS Integers, Sequences, FiniteSets, Bags, TLC

VARIABLES
    a_args,          \* astar_search: the call's arguments
    a_open_heap,     \* astar_search: open_heap
    a_closed,        \* astar_search: closed
    a_pc,            \* astar_search: "idle", "loop" or "done"
    a_result,        \* astar_search: the returned path (NoPath: None)
    a_iters,         \* astar_search: how many loop iterations have run
    c_args,          \* cbs_search: the call's arguments
    c_open_heap,     \* cbs_search: open_heap
    c_pc,            \* cbs_search: "idle", "loop" or "done"
    c_result,        \* cbs_search: the returned value
    c_node,          \* cbs_search: node, the last one popped
    c_conflict,      \* cbs_search: conflict, the last one selected
    c_pops,          \* cbs_search: how many nodes were popped
    d_paths,         \* detect_conflict: paths
    d_landing_hold,  \* detect_conflict: landing_hold
    d_pc,            \* detect_conflict: "idle" or "done"
    d_result,        \* detect_conflict: the returned list of conflicts
    m_args,          \* multi_round_auction: the call's arguments
    m_pc,            \* multi_round_auction: "idle", "round", "done" or "hung"
    m_round_id,      \* multi_round_auction: round_id of the next round
    m_history,       \* multi_round_auction: history
    m_base_price,    \* multi_round_auction: base_price
    m_constraints,   \* multi_round_auction: auction_constraints
    m_calls,         \* multi_round_auction: the cbs_search calls made so far
    m_result,        \* multi_round_auction: the returned dict
    s_self,          \* Airspace: the object (NoAirspace before construction)
    s_last,          \* Airspace: the last call made on the object and what it raised
    s_added,         \* Airspace: the cells add_static_obstacle has been applied to
    o_self,          \* core.Airspace: the object (NoCoreAirspace before construction)
    o_last           \* core.Airspace: the last call made on the object

a_vars == <<a_args, a_open_heap, a_closed, a_pc, a_result, a_iters>>
c_vars == <<c_args, c_open_heap, c_pc, c_result, c_node, c_conflict, c_pops>>
d_vars == <<d_paths, d_landing_hold, d_pc, d_result>>
m_vars == <<m_args, m_pc, m_round_id, m_history, m_base_price, m_constraints, m_calls,
            m_result>>
s_vars == <<s_self, s_last, s_added>>
o_vars == <<o_self, o_last>>
vars == <<a_vars, c_vars, d_vars, m_vars, s_vars, o_vars>>

\* What a call of one function leaves alone: the state of the other calls.
not_a == <<c_vars, d_vars, m_vars, s_vars, o_vars>>
not_c == <<a_vars, d_vars, m_vars, s_vars, o_vars>>
not_d == <<a_vars, c_vars, m_vars, s_vars, o_vars>>
not_m == <<a_vars, c_vars, d_vars, s_vars, o_vars>>
not_s == <<a_vars, c_vars, d_vars, m_vars, o_vars>>
not_o == <<a_vars, c_vars, d_vars, m_vars, s_vars>>

NoPath == <<>>
NoPos == <<>>
NoAgent == "None"

(***************************************************************************)
(* Bounds of the model.                                                    *)
(***************************************************************************)
\* The default of max_time and of max_astar_time (200 in the code), scaled.
DefaultMaxTime == 3
\* The horizon of the auction's constraints (50 in the code), scaled: it is
\* below the default time bound, as in the code.
Horizon == 2
\* The largest max_rounds given to multi_round_auction.
MaxRounds == 2
\* The longest path given to detect_conflict on its own.
DetectLen == 3
\* The largest landing_hold given to detect_conflict on its own.
MaxHold == 3
MaxT == 3
\* The most nodes a cbs_search call pops in the model.
MaxPops == 40

(***************************************************************************)
(* heapq, on sequences (index i of the source is index i + 1 here).        *)
(***************************************************************************)
f_cost(n) == n.g_cost + n.h_cost

\* AstarNode.__lt__ and CBSNode.__lt__: the class of the operands selects.
NodeLt(x, y) ==
    IF "cost" \in DOMAIN x
    THEN x.cost < y.cost
    ELSE IF f_cost(x) = f_cost(y)
         THEN x.h_cost < y.h_cost
         ELSE f_cost(x) < f_cost(y)

RECURSIVE siftdown(_, _, _, _)
siftdown(heap, startpos, pos, newitem) ==
    IF pos > startpos
    THEN LET parentpos == (pos - 1) \div 2
             parent == heap[parentpos + 1]
         IN  IF NodeLt(newitem, parent)
             THEN siftdown([heap EXCEPT ![pos + 1] = parent], startpos, parentpos, newitem)
             ELSE [heap EXCEPT ![pos + 1] = newitem]
    ELSE [heap EXCEPT ![pos + 1] = newitem]

RECURSIVE siftup(_, _, _)
siftup(heap, pos, newitem) ==
    LET endpos == Len(heap)
        leftpos == 2 * pos + 1
        rightpos == leftpos + 1
        childpos == IF rightpos < endpos /\ ~NodeLt(heap[leftpos + 1], heap[rightpos + 1])
                    THEN rightpos
                    ELSE leftpos
    IN  IF leftpos < endpos
        THEN siftup([heap EXCEPT ![pos + 1] = heap[childpos + 1]], childpos, newitem)
        ELSE siftdown([heap EXCEPT ![pos + 1] = newitem], 0, pos, newitem)

heappush(heap, item) == siftdown(Append(heap, item), 0, Len(heap), item)

\* heappop returns heap[0]; this is the heap it leaves behind.
heappop(heap) ==
    LET lastelt == heap[Len(heap)]
        rest == SubSeq(heap, 1, Len(heap) - 1)
    IN  IF rest = <<>> THEN rest ELSE siftup(rest, 0, lastelt)

(***************************************************************************)
(* astar_search.                                                           *)
(***************************************************************************)
rows(grid_map) == Len(grid_map)
cols(grid_map) == Len(grid_map[1])

Abs(x) == IF x < 0 THEN -x ELSE x

\* Mutant: the distance counted twice, which overestimates.
heuristicDoubled(p1, p2) == 2 * (Abs(p1[1] - p2[1]) + Abs(p1[2] - p2[2]))

heuristic(p1, p2) == Abs(p1[1] - p2[1]) + Abs(p1[2] - p2[2])

\* max_time as the search uses it: a value that is not positive is replaced.
EffectiveMaxTime(grid_map, max_time) ==
    IF max_time <= 0 THEN rows(grid_map) * cols(grid_map) * 2 ELSE max_time

\* The index of the vertex constraints: <<agent, time, pos>> stands for
\* pos \in vertex_constraints[(agent, time)].
vertex_constraints(constraints) ==
    { <<constraints[i].agent, constraints[i].time, constraints[i].pos>> :
        i \in { j \in DOMAIN constraints :
                  /\ constraints[j].type \in {"None", "vertex"}
                  /\ constraints[j].pos # NoPos } }

\* The index of the edge constraints: <<agent, time, from, to>>.
edge_constraints(constraints) ==
    { <<constraints[i].agent, constraints[i].time, constraints[i].from, constraints[i].to>> :
        i \in { j \in DOMAIN constraints :
                  /\ constraints[j].type = "edge"
                  /\ constraints[j].from # NoPos
                  /\ constraints[j].to # NoPos } }

AstarNode(position, g_cost, h_cost, parent, time) ==
    [position |-> position, g_cost |-> g_cost, h_cost |-> h_cost,
     parent |-> parent, time |-> time]

\* The parent chain of a node is kept as the path that leads to the parent;
\* following it from the node and reversing gives this.
ReconstructPath(node) == Append(node.parent, node.position)

\* Mutant: moves to a diagonal neighbour too.
DirectionsDiagonal == << <<0, 1>>, <<0, -1>>, <<1, 0>>, <<-1, 0>>, <<0, 0>>, <<1, 1>> >>

Directions == << <<0, 1>>, <<0, -1>>, <<1, 0>>, <<-1, 0>>, <<0, 0>> >>

\* Mutant: the edge constraints are not looked up.
MoveAllowedNoEdge(args, vc, ec, curr, next_pos, nt) ==
    /\ 0 <= next_pos[1] /\ next_pos[1] < rows(args.grid_map)
    /\ 0 <= next_pos[2] /\ next_pos[2] < cols(args.grid_map)
    /\ args.grid_map[next_pos[1] + 1][next_pos[2] + 1] # "#"
    /\ <<args.agent_id, nt, next_pos>> \notin vc
    /\ <<NoAgent, nt, next_pos>> \notin vc
    /\ nt <= EffectiveMaxTime(args.grid_map, args.max_time)

\* Whether the planner may step from curr to next_pos (arriving at nt).
MoveAllowed(args, vc, ec, curr, next_pos, nt) ==
    /\ 0 <= next_pos[1] /\ next_pos[1] < rows(args.grid_map)
    /\ 0 <= next_pos[2] /\ next_pos[2] < cols(args.grid_map)
    /\ args.grid_map[next_pos[1] + 1][next_pos[2] + 1] # "#"
    /\ <<args.agent_id, nt, next_pos>> \notin vc
    /\ <<NoAgent, nt, next_pos>> \notin vc
    /\ <<args.agent_id, nt, curr.position, next_pos>> \notin ec
    /\ <<NoAgent, nt, curr.position, next_pos>> \notin ec
    /\ nt <= EffectiveMaxTime(args.grid_map, args.max_time)

RECURSIVE ExpandNeighbors(_, _, _, _, _, _)
ExpandNeighbors(args, vc, ec, curr, heap, i) ==
    IF i > Len(Directions)
    THEN heap
    ELSE LET next_pos == <<curr.position[1] + Directions[i][1],
                           curr.position[2] + Directions[i][2]>>
             nt == curr.time + 1
             new_node == AstarNode(next_pos, curr.g_cost + 1,
                                   heuristic(next_pos, args.goal),
                                   ReconstructPath(curr), nt)
         IN  ExpandNeighbors(args, vc, ec, curr,
                             IF MoveAllowed(args, vc, ec, curr, next_pos, nt)
                             THEN heappush(heap, new_node)
                             ELSE heap,
                             i + 1)

\* Mutant: the goal check looks at the arrival time only.
ForbiddenNow(args, vc, curr) ==
    \/ <<args.agent_id, curr.time, args.goal>> \in vc
    \/ <<NoAgent, curr.time, args.goal>> \in vc

\* The goal check's forbidden_later.
ForbiddenLater(args, vc, curr) ==
    \E future_t \in curr.time .. EffectiveMaxTime(args.grid_map, args.max_time) :
        \/ <<args.agent_id, future_t, args.goal>> \in vc
        \/ <<NoAgent, future_t, args.goal>> \in vc

ClosedHit(closed, curr) ==
    \E e \in closed : e[1] = curr.position /\ e[2] = curr.time /\ e[3] <= curr.g_cost

ClosedPut(closed, curr) ==
    { e \in closed : ~(e[1] = curr.position /\ e[2] = curr.time) }
        \cup { <<curr.position, curr.time, curr.g_cost>> }

\* The state of the search before the loop.
AstarStart(args) ==
    IF args.grid_map = <<>> \/ args.grid_map[1] = <<>>
    THEN [open_heap |-> <<>>, closed |-> {}, done |-> TRUE, result |-> NoPath]
    ELSE [open_heap |-> << AstarNode(args.start, 0, heuristic(args.start, args.goal),
                                     NoPath, 0) >>,
          closed |-> {}, done |-> FALSE, result |-> NoPath]

\* One iteration of "while open_heap", or the return after it.
AstarIteration(args, st) ==
    IF st.open_heap = <<>>
    THEN [st EXCEPT !.done = TRUE, !.result = NoPath]
    ELSE LET curr == st.open_heap[1]
             popped == heappop(st.open_heap)
             vc == vertex_constraints(args.constraints)
             ec == edge_constraints(args.constraints)
         IN  IF ClosedHit(st.closed, curr)
             THEN [st EXCEPT !.open_heap = popped]
             ELSE IF curr.position = args.goal /\ ~ForbiddenLater(args, vc, curr)
                  THEN [open_heap |-> popped,
                        closed |-> ClosedPut(st.closed, curr),
                        done |-> TRUE,
                        result |-> ReconstructPath(curr)]
                  ELSE [open_heap |-> ExpandNeighbors(args, vc, ec, curr, popped, 1),
                        closed |-> ClosedPut(st.closed, curr),
                        done |-> FALSE,
                        result |-> NoPath]

RECURSIVE AstarLoop(_, _)
AstarLoop(args, st) ==
    IF st.done THEN st.result ELSE AstarLoop(args, AstarIteration(args, st))

astar_search(start, goal, constraints, grid_map, agent_id, max_time) ==
    LET args == [start |-> start, goal |-> goal, constraints |-> constraints,
                 grid_map |-> grid_map, agent_id |-> agent_id, max_time |-> max_time]
    IN  AstarLoop(args, AstarStart(args))

(***************************************************************************)
(* The planner's inputs.                                                   *)
(***************************************************************************)
Cells(grid_map) ==
    { <<r, c>> : r \in 0 .. rows(grid_map) - 1, c \in 0 .. cols(grid_map) - 1 }

VertexConstraint(agent, time, pos) ==
    [agent |-> agent, time |-> time, type |-> "vertex", pos |-> pos,
     from |-> NoPos, to |-> NoPos]

EdgeConstraint(agent, time, from, to) ==
    [agent |-> agent, time |-> time, type |-> "edge", pos |-> NoPos,
     from |-> from, to |-> to]

\* An entry of a kind the planner does not know: it is dropped.
UnknownConstraint(agent, time, pos) ==
    [agent |-> agent, time |-> time, type |-> "zone", pos |-> pos,
     from |-> NoPos, to |-> NoPos]

Corridor3 == << <<".", ".", ".">> >>
Corridor3Blocked == << <<".", "#", ".">> >>
Square2 == << <<".", ".">>, <<".", ".">> >>
Square2Wall == << <<".", "#">>, <<".", ".">> >>
Square3 == << <<".", ".", ".">>, <<".", ".", ".">>, <<".", ".", ".">> >>
Corridor4 == << <<".", ".", ".", ".">> >>

\* The constraints a call may carry on a grid: for the planning agent "A"
\* and global, at every time up to MaxT, on every cell and every transition
\* between a cell and itself or a neighbour.
VertexUniverse(grid_map) ==
    { VertexConstraint(a, t, p) :
        a \in {"A", NoAgent}, t \in 0 .. MaxT, p \in Cells(grid_map) }

EdgeUniverse(grid_map) ==
    { EdgeConstraint(a, t, e[1], e[2]) :
        a \in {"A", NoAgent}, t \in 1 .. MaxT,
        e \in { x \in Cells(grid_map) \X Cells(grid_map) : heuristic(x[1], x[2]) <= 1 } }

IgnoredUniverse(grid_map) ==
    { VertexConstraint("B", 1, p) : p \in Cells(grid_map) }
        \cup { UnknownConstraint("A", 1, p) : p \in Cells(grid_map) }

(***************************************************************************)
(* detect_conflict.                                                        *)
(***************************************************************************)
\* A variant that drops the landing hold: the agent is gone after its last index.
pos_atNoHold(path, t, landing_hold) ==
    IF t < Len(path) THEN path[t + 1] ELSE NoPos

pos_at(path, t, landing_hold) ==
    IF t < Len(path)
    THEN path[t + 1]
    ELSE IF t < Len(path) + landing_hold
         THEN path[Len(path)]
         ELSE NoPos

\* The agent ids in the order a dict of the catalog iterates them.
AgentOrder == <<"A", "B", "C">>

Items(d) == SelectSeq(AgentOrder, LAMBDA a : a \in DOMAIN d)

RECURSIVE MaxLen(_, _)
MaxLen(paths, ids) ==
    IF ids = <<>>
    THEN 0
    ELSE LET m == MaxLen(paths, Tail(ids))
             n == Len(paths[Head(ids)])
         IN  IF n > m THEN n ELSE m

\* The index pairs <<i, j>>, i < j <= n, from <<i, j>> on, in the order of two
\* nested loops (and of itertools.combinations).
RECURSIVE PairSeq(_, _, _)
PairSeq(n, i, j) ==
    IF i >= n
    THEN <<>>
    ELSE IF j > n
         THEN PairSeq(n, i + 1, i + 2)
         ELSE << <<i, j>> >> \o PairSeq(n, i, j + 1)

VertexConflict(t, agent1, agent2, pos) ==
    [type |-> "vertex", time |-> t, agent1 |-> agent1, agent2 |-> agent2, pos |-> pos,
     a1_from |-> NoPos, a1_to |-> NoPos, a2_from |-> NoPos, a2_to |-> NoPos]

EdgeConflict(t, agent1, agent2, a1_from, a1_to, a2_from, a2_to) ==
    [type |-> "edge", time |-> t, agent1 |-> agent1, agent2 |-> agent2, pos |-> NoPos,
     a1_from |-> a1_from, a1_to |-> a1_to, a2_from |-> a2_from, a2_to |-> a2_to]

\* The conflicts of one cell of occ: every pair of agents_here.
CellConflicts(t, pos, agents_here) ==
    LET pairs == PairSeq(Len(agents_here), 1, 2)
    IN  [k \in 1 .. Len(pairs) |->
            VertexConflict(t, agents_here[pairs[k][1]], agents_here[pairs[k][2]], pos)]

\* The vertex conflicts of time t: occ's cells in the order the agents first
\* enter them.
RECURSIVE OccConflicts(_, _, _, _, _)
OccConflicts(paths, present, t, landing_hold, i) ==
    IF i > Len(present)
    THEN <<>>
    ELSE LET pos == pos_at(paths[present[i]], t, landing_hold)
             first == \A j \in 1 .. i - 1 : pos_at(paths[present[j]], t, landing_hold) # pos
             agents_here == SelectSeq(present,
                                LAMBDA a : pos_at(paths[a], t, landing_hold) = pos)
         IN  (IF first THEN CellConflicts(t, pos, agents_here) ELSE <<>>)
                 \o OccConflicts(paths, present, t, landing_hold, i + 1)

RECURSIVE VertexConflicts(_, _, _, _)
VertexConflicts(paths, landing_hold, t, max_time) ==
    IF t >= max_time
    THEN <<>>
    ELSE LET present == SelectSeq(Items(paths),
                            LAMBDA a : pos_at(paths[a], t, landing_hold) # NoPos)
         IN  OccConflicts(paths, present, t, landing_hold, 1)
                 \o VertexConflicts(paths, landing_hold, t + 1, max_time)

\* A variant without the test that the agents moved: two agents that wait in
\* one cell are reported as a swap.
SwapConflictWaiting(paths, landing_hold, t, a1, a2) ==
    LET a1_t == pos_at(paths[a1], t, landing_hold)
        a1_t1 == pos_at(paths[a1], t - 1, landing_hold)
        a2_t == pos_at(paths[a2], t, landing_hold)
        a2_t1 == pos_at(paths[a2], t - 1, landing_hold)
    IN  IF NoPos \in {a1_t, a1_t1, a2_t, a2_t1}
        THEN <<>>
        ELSE IF a1_t = a2_t1 /\ a2_t = a1_t1
             THEN << EdgeConflict(t, a1, a2, a1_t1, a1_t, a2_t1, a2_t) >>
             ELSE <<>>

\* A variant that reports no swap.
SwapConflictNone(paths, landing_hold, t, a1, a2) == <<>>

\* The edge conflict of one pair of agents at time t, if there is one.
SwapConflict(paths, landing_hold, t, a1, a2) ==
    LET a1_t == pos_at(paths[a1], t, landing_hold)
        a1_t1 == pos_at(paths[a1], t - 1, landing_hold)
        a2_t == pos_at(paths[a2], t, landing_hold)
        a2_t1 == pos_at(paths[a2], t - 1, landing_hold)
    IN  IF NoPos \in {a1_t, a1_t1, a2_t, a2_t1}
        THEN <<>>
        ELSE IF a1_t = a2_t1 /\ a2_t = a1_t1 /\ a1_t1 # a1_t
             THEN << EdgeConflict(t, a1, a2, a1_t1, a1_t, a2_t1, a2_t) >>
             ELSE <<>>

RECURSIVE PairConflicts(_, _, _, _, _)
PairConflicts(paths, landing_hold, t, pairs, k) ==
    IF k > Len(pairs)
    THEN <<>>
    ELSE SwapConflict(paths, landing_hold, t,
                      Items(paths)[pairs[k][1]], Items(paths)[pairs[k][2]])
             \o PairConflicts(paths, landing_hold, t, pairs, k + 1)

RECURSIVE EdgeConflicts(_, _, _, _)
EdgeConflicts(paths, landing_hold, t, max_time) ==
    IF t >= max_time
    THEN <<>>
    ELSE PairConflicts(paths, landing_hold, t, PairSeq(Len(Items(paths)), 1, 2), 1)
             \o EdgeConflicts(paths, landing_hold, t + 1, max_time)

detect_conflict(paths, landing_hold) ==
    IF DOMAIN paths = {}
    THEN <<>>
    ELSE LET max_time == MaxLen(paths, Items(paths)) + landing_hold
         IN  VertexConflicts(paths, landing_hold, 0, max_time)
                 \o EdgeConflicts(paths, landing_hold, 1, max_time)

(***************************************************************************)
(* cbs_search.                                                             *)
(***************************************************************************)
RECURSIVE SumLen(_, _)
SumLen(paths, ids) ==
    IF ids = <<>> THEN 0 ELSE Len(paths[Head(ids)]) + SumLen(paths, Tail(ids))

CBSNode(constraints, paths) ==
    [constraints |-> constraints, paths |-> paths, cost |-> SumLen(paths, Items(paths))]

\* A variant that takes the last conflict of the list.
LastConflict(conflicts) == conflicts[Len(conflicts)]

\* min(conflicts, key=time): the first conflict of the least time.
EarliestConflict(conflicts) ==
    LET least == CHOOSE i \in DOMAIN conflicts :
                    /\ \A j \in DOMAIN conflicts : conflicts[i].time <= conflicts[j].time
                    /\ \A j \in 1 .. i - 1 : conflicts[j].time > conflicts[i].time
    IN  conflicts[least]

\* A variant that replans the agent under the new constraint alone.
ChildForgetful(args, node, agent, constraint) ==
    LET new_constraints == Append(node.constraints, constraint)
        new_p == astar_search(args.agents[agent][1], args.agents[agent][2],
                              << constraint >>, args.grid_map, agent, args.max_astar_time)
    IN  IF new_p # NoPath
        THEN << CBSNode(new_constraints, [node.paths EXCEPT ![agent] = new_p]) >>
        ELSE <<>>

\* The child that constrains one agent: none when the agent cannot be replanned.
Child(args, node, agent, constraint) ==
    LET new_constraints == Append(node.constraints, constraint)
        new_p == astar_search(args.agents[agent][1], args.agents[agent][2],
                              new_constraints, args.grid_map, agent, args.max_astar_time)
    IN  IF new_p # NoPath
        THEN << CBSNode(new_constraints, [node.paths EXCEPT ![agent] = new_p]) >>
        ELSE <<>>

\* A variant that branches on the first agent of the conflict only.
ChildrenFirstAgent(args, node, conflict) ==
    IF conflict.type = "vertex"
    THEN Child(args, node, conflict.agent1,
               VertexConstraint(conflict.agent1, conflict.time, conflict.pos))
    ELSE Child(args, node, conflict.agent1,
               EdgeConstraint(conflict.agent1, conflict.time,
                              conflict.a1_from, conflict.a1_to))

\* The constraint a child adds for the first (which = 1) or the second agent
\* of the conflict.
BranchAgent(conflict, which) == IF which = 1 THEN conflict.agent1 ELSE conflict.agent2

BranchConstraint(conflict, which) ==
    IF conflict.type = "vertex"
    THEN VertexConstraint(BranchAgent(conflict, which), conflict.time, conflict.pos)
    ELSE IF which = 1
         THEN EdgeConstraint(conflict.agent1, conflict.time, conflict.a1_from, conflict.a1_to)
         ELSE EdgeConstraint(conflict.agent2, conflict.time, conflict.a2_from, conflict.a2_to)

\* A variant in which new_constraints is the node's own list, not a copy: the
\* append reaches the node.
NodeAfterChildAliased(node, constraint) ==
    [node EXCEPT !.constraints = Append(@, constraint)]

\* The popped node after the loop body of one agent: new_constraints and
\* new_paths are copies (list(...), dict(...)), so the append and the
\* assignment of the new path leave the node as it was.
NodeAfterChild(node, constraint) == node

\* The popped node after both loop bodies.
NodeAfterChildren(node, conflict) ==
    NodeAfterChild(NodeAfterChild(node, BranchConstraint(conflict, 1)),
                   BranchConstraint(conflict, 2))

Children(args, node, conflict) ==
    Child(args, node, BranchAgent(conflict, 1), BranchConstraint(conflict, 1))
        \o Child(args, NodeAfterChild(node, BranchConstraint(conflict, 1)),
                 BranchAgent(conflict, 2), BranchConstraint(conflict, 2))

RECURSIVE PushAll(_, _)
PushAll(heap, children) ==
    IF children = <<>>
    THEN heap
    ELSE PushAll(heappush(heap, Head(children)), Tail(children))

\* The root's paths: each agent planned alone against extra_constraints.
RootPaths(args) ==
    [aid \in DOMAIN args.agents |->
        astar_search(args.agents[aid][1], args.agents[aid][2], args.extra_constraints,
                     args.grid_map, aid, args.max_astar_time)]

NoNode == [constraints |-> <<>>, paths |-> <<>>, cost |-> 0]
NoConflict == [type |-> "none", time |-> 0, agent1 |-> NoAgent, agent2 |-> NoAgent,
               pos |-> NoPos, a1_from |-> NoPos, a1_to |-> NoPos,
               a2_from |-> NoPos, a2_to |-> NoPos]

\* What cbs_search returns: a path per agent, or None.
Solution(paths) == [found |-> TRUE, paths |-> paths]
NoSolution == [found |-> FALSE, paths |-> <<>>]

CbsIdle(args) ==
    /\ c_args = args
    /\ c_open_heap = <<>>
    /\ c_pc = "idle"
    /\ c_result = NoSolution
    /\ c_node = NoNode
    /\ c_conflict = NoConflict
    /\ c_pops = 0

\* The call, up to the loop: the root is planned and pushed.
CbsRoot ==
    /\ c_pc = "idle"
    /\ LET root_paths == RootPaths(c_args)
       IN  IF \E aid \in DOMAIN root_paths : root_paths[aid] = NoPath
           THEN /\ c_pc' = "done"
                /\ c_result' = NoSolution
                /\ c_open_heap' = <<>>
           ELSE /\ c_pc' = "loop"
                /\ c_result' = NoSolution
                /\ c_open_heap' = << CBSNode(c_args.extra_constraints, root_paths) >>
    /\ UNCHANGED <<c_args, c_node, c_conflict, c_pops>>

\* "while open_heap" finds the heap empty: return None.
CbsExhausted ==
    /\ c_pc = "loop"
    /\ c_open_heap = <<>>
    /\ c_pc' = "done"
    /\ c_result' = NoSolution
    /\ UNCHANGED <<c_args, c_open_heap, c_node, c_conflict, c_pops>>

\* One iteration of the loop that pops a node without conflicts: it is returned.
CbsReturn ==
    /\ c_pc = "loop"
    /\ c_open_heap # <<>>
    /\ c_pops < MaxPops
    /\ LET node == c_open_heap[1]
       IN  /\ detect_conflict(node.paths, 2) = <<>>
           /\ c_node' = node
           /\ c_open_heap' = heappop(c_open_heap)
           /\ c_result' = Solution(node.paths)
    /\ c_conflict' = NoConflict
    /\ c_pc' = "done"
    /\ c_pops' = c_pops + 1
    /\ UNCHANGED c_args

\* One iteration of the loop that pops a node with conflicts: it is branched.
CbsExpand ==
    /\ c_pc = "loop"
    /\ c_open_heap # <<>>
    /\ c_pops < MaxPops
    /\ LET node == c_open_heap[1]
           conflicts == detect_conflict(node.paths, 2)
           conflict == EarliestConflict(conflicts)
       IN  /\ conflicts # <<>>
           /\ c_node' = NodeAfterChildren(node, conflict)
           /\ c_conflict' = conflict
           /\ c_open_heap' = PushAll(heappop(c_open_heap), Children(c_args, node, conflict))
    /\ c_pops' = c_pops + 1
    /\ UNCHANGED <<c_args, c_pc, c_result>>

(***************************************************************************)
(* The specifications.                                                     *)
(***************************************************************************)
\* The state of an astar_search call that has not started.
AstarIdle(args) ==
    /\ a_args = args
    /\ a_open_heap = <<>>
    /\ a_closed = {}
    /\ a_pc = "idle"
    /\ a_result = NoPath
    /\ a_iters = 0

\* No astar_search call is made.
AstarUnused ==
    AstarIdle([start |-> NoPos, goal |-> NoPos, constraints |-> <<>>,
               grid_map |-> <<>>, agent_id |-> NoAgent, max_time |-> 0])

\* No cbs_search call is made.
CbsUnused ==
    CbsIdle([agents |-> <<>>, grid_map |-> <<>>, extra_constraints |-> <<>>,
             max_astar_time |-> 0])

\* The state of a detect_conflict call that has not started.
DetectIdle(paths, landing_hold) ==
    /\ d_paths = paths
    /\ d_landing_hold = landing_hold
    /\ d_pc = "idle"
    /\ d_result = <<>>

\* No detect_conflict call is made.
DetectUnused == DetectIdle(<<>>, 0)

\* What multi_round_auction returns: a dict, as the set of its keys and a
\* value per key (a value of a key that is not in the dict is a filler).
Outcome(keys, solution, auctions, reason, error) ==
    [keys |-> keys, solution |-> solution, auctions |-> auctions, reason |-> reason,
     error |-> error]

NoOutcome == Outcome({}, <<>>, <<>>, "", "")

\* The state of a multi_round_auction call that has not started.
AuctionIdle(args) ==
    /\ m_args = args
    /\ m_pc = "idle"
    /\ m_round_id = 0
    /\ m_history = <<>>
    /\ m_base_price = args.base_price
    /\ m_constraints = <<>>
    /\ m_calls = <<>>
    /\ m_result = NoOutcome

\* No multi_round_auction call is made.
AuctionUnused ==
    AuctionIdle([agents |-> <<>>, grid_map |-> <<>>, max_rounds |-> 0, base_price |-> 0,
                 strategy |-> "linear"])

\* An Airspace that has not been constructed, and a call that was not made.
NoAirspace ==
    [width |-> 0, height |-> 0, max_time |-> 0, grid |-> [keys |-> <<>>, layers |-> <<>>],
     static_obstacles |-> {}]

NoCall ==
    [op |-> "none", positions |-> <<>>, state |-> "", timestamps |-> <<>>,
     agent_id |-> NoAgent, raised |-> "none"]

\* No Airspace is constructed.
AirspaceUnused ==
    /\ s_self = NoAirspace
    /\ s_last = NoCall
    /\ s_added = {}

\* An Airspace of core.py that has not been constructed, and a call on it
\* that was not made.
NoCoreAirspace ==
    [width |-> 0, height |-> 0, time_horizon |-> 0, static_obstacles |-> {},
     dynamic_occupancy |-> <<>>]

NoCoreCall == [op |-> "none", x |-> 0, y |-> 0, t |-> 0, raised |-> "none"]

\* No Airspace of core.py is constructed.
CoreUnused ==
    /\ o_self = NoCoreAirspace
    /\ o_last = NoCoreCall

AstarArgs(start, goal, constraints, grid_map, agent_id, max_time) ==
    [start |-> start, goal |-> goal, constraints |-> constraints,
     grid_map |-> grid_map, agent_id |-> agent_id, max_time |-> max_time]

\* Corridors of three cells, with up to two constraints.
InitCorridor ==
    \E grid_map \in {Corridor3, Corridor3Blocked} :
    \E start \in Cells(grid_map), goal \in Cells(grid_map) :
    \E max_time \in {0, MaxT - 1, MaxT} :
    \E c1 \in VertexUniverse(grid_map) \cup EdgeUniverse(grid_map) \cup IgnoredUniverse(grid_map) :
    \E c2 \in VertexUniverse(grid_map) :
    \E constraints \in {<<>>, <<c1>>, <<c2, c1>>} :
        AstarIdle(AstarArgs(start, goal, constraints, grid_map, "A", max_time))

\* Squares of four cells, with up to one constraint.
InitSquare ==
    \E grid_map \in {Square2, Square2Wall} :
    \E start \in Cells(grid_map), goal \in Cells(grid_map) :
    \E max_time \in {0, MaxT - 1, MaxT} :
    \E c1 \in VertexUniverse(grid_map) \cup EdgeUniverse(grid_map) \cup IgnoredUniverse(grid_map) :
    \E constraints \in {<<>>, <<c1>>} :
        AstarIdle(AstarArgs(start, goal, constraints, grid_map, "A", max_time))

\* The clear 3 x 3 grid without constraints (the spec's scenario S1 is the call
\* from <<0, 0>> to <<2, 2>>).
InitClear ==
    \E start \in Cells(Square3), goal \in Cells(Square3) :
    \E max_time \in {0, MaxT, MaxT + 1} :
        AstarIdle(AstarArgs(start, goal, <<>>, Square3, "A", max_time))

\* A goal that a global vertex constraint forbids at time 5 (scenario S3),
\* with time bounds below and above 5.
InitGoalBlocked ==
    \E grid_map \in {Square2, Corridor3} :
    \E start \in Cells(grid_map), goal \in Cells(grid_map) :
    \E max_time \in {0, MaxT, 2 * MaxT + 1} :
        AstarIdle(AstarArgs(start, goal, << VertexConstraint(NoAgent, 5, goal) >>,
                            grid_map, "A", max_time))

InitAstar ==
    /\ InitCorridor \/ InitSquare \/ InitClear \/ InitGoalBlocked
    /\ CbsUnused
    /\ DetectUnused
    /\ AuctionUnused
    /\ AirspaceUnused
    /\ CoreUnused

(***************************************************************************)
(* astar_search as steps: the call, then one loop iteration per step.      *)
(***************************************************************************)
AstarCall ==
    /\ a_pc = "idle"
    /\ LET st == AstarStart(a_args)
       IN  /\ a_open_heap' = st.open_heap
           /\ a_closed' = st.closed
           /\ a_result' = st.result
           /\ a_pc' = IF st.done THEN "done" ELSE "loop"
    /\ UNCHANGED <<a_args, a_iters, not_a>>

AstarStep ==
    /\ a_pc = "loop"
    /\ LET st == AstarIteration(a_args, [open_heap |-> a_open_heap, closed |-> a_closed,
                                         done |-> FALSE, result |-> NoPath])
       IN  /\ a_open_heap' = st.open_heap
           /\ a_closed' = st.closed
           /\ a_result' = st.result
           /\ a_pc' = IF st.done THEN "done" ELSE "loop"
    /\ a_iters' = a_iters + 1
    /\ UNCHANGED <<a_args, not_a>>

NextAstar == AstarCall \/ AstarStep

SpecAstar == InitAstar /\ [][NextAstar]_vars

(***************************************************************************)
(* What the claims about astar_search speak of, written from the claims:   *)
(* a reference reading of the constraints and a breadth-first search of    *)
(* the time-expanded grid.                                                 *)
(***************************************************************************)
AstarReturned == a_pc = "done" /\ a_result # NoPath

\* The arrival time of the returned path.
Arrival == Len(a_result) - 1

RefTMax(args) ==
    IF args.max_time > 0
    THEN args.max_time
    ELSE 2 * Cardinality(Cells(args.grid_map))

RefApplies(args, c) == c.agent = args.agent_id \/ c.agent = NoAgent

RefVertexForbids(args, t, p) ==
    \E i \in DOMAIN args.constraints :
        LET c == args.constraints[i]
        IN  RefApplies(args, c) /\ c.type = "vertex" /\ c.time = t /\ c.pos = p

RefEdgeForbids(args, t, u, v) ==
    \E i \in DOMAIN args.constraints :
        LET c == args.constraints[i]
        IN  RefApplies(args, c) /\ c.type = "edge" /\ c.time = t /\ c.from = u /\ c.to = v

RefOpen(grid_map, p) == p \in Cells(grid_map) /\ grid_map[p[1] + 1][p[2] + 1] = "."

\* A wait or one 4-connected unit move.
RefUnitStep(u, v) ==
    \/ u = v
    \/ u[1] = v[1] /\ (u[2] = v[2] + 1 \/ v[2] = u[2] + 1)
    \/ u[2] = v[2] /\ (u[1] = v[1] + 1 \/ v[1] = u[1] + 1)

\* The cells some sequence of t legal moves from start ends on: every move is
\* a wait or a unit move onto an open in-bounds cell that no applicable vertex
\* constraint forbids at the time of arrival, along a transition no applicable
\* edge constraint forbids at that time.
RECURSIVE RefReach(_, _)
RefReach(args, t) ==
    IF t = 0
    THEN {args.start}
    ELSE LET before == RefReach(args, t - 1)
         IN  { q \in Cells(args.grid_map) :
                 /\ RefOpen(args.grid_map, q)
                 /\ ~RefVertexForbids(args, t, q)
                 /\ \E u \in before : RefUnitStep(u, q) /\ ~RefEdgeForbids(args, t, u, q) }

\* No applicable vertex constraint forbids the goal from t up to t_max.
RefGoalFree(args, t) ==
    \A u \in t .. RefTMax(args) : ~RefVertexForbids(args, u, args.goal)

\* The times at which a feasible sequence of moves can end on the goal.
RefArrivals(args) ==
    { t \in 0 .. RefTMax(args) : args.goal \in RefReach(args, t) /\ RefGoalFree(args, t) }

RefFeasible(args) == RefArrivals(args) # {}

RefShortest(args) == CHOOSE t \in RefArrivals(args) : \A u \in RefArrivals(args) : t <= u

\* C3: every returned path obeys every applicable constraint: no vertex
\* constraint (t, p) with 0 <= t < len(path) has path[t] = p, the start cell at
\* t = 0 included, and no edge constraint (t, u, v) with 1 <= t < len(path) has
\* (path[t-1], path[t]) = (u, v).
C3_PathObeysConstraints ==
    AstarReturned =>
        /\ \A t \in 0 .. Arrival : ~RefVertexForbids(a_args, t, a_result[t + 1])
        /\ \A t \in 1 .. Arrival : ~RefEdgeForbids(a_args, t, a_result[t], a_result[t + 1])

\* C4 as stated: no applicable vertex constraint forbids the goal at any time
\* from the arrival on, whatever the time; with a global vertex constraint on
\* the goal at t = 5 no returned path ends at an index <= 5.
C4_GoalFreeForEver ==
    AstarReturned =>
        \A i \in DOMAIN a_args.constraints :
            LET c == a_args.constraints[i]
            IN  (RefApplies(a_args, c) /\ c.type = "vertex" /\ c.pos = a_args.goal)
                    => c.time < Arrival

\* C4 as amended: no applicable vertex constraint forbids the goal at a time
\* from the arrival up to t_max; with a global vertex constraint on the goal
\* at t = 5 and t_max >= 5 no returned path ends at an index <= 5.
C4_GoalFreeUpToTMax ==
    AstarReturned =>
        /\ \A t \in Arrival .. RefTMax(a_args) : ~RefVertexForbids(a_args, t, a_args.goal)
        /\ (/\ VertexConstraint(NoAgent, 5, a_args.goal) \in
                   { a_args.constraints[i] : i \in DOMAIN a_args.constraints }
            /\ RefTMax(a_args) >= 5)
               => Arrival > 5

\* C4's case: a path was returned although the goal is forbidden at time 5 and
\* could have been reached before: the path arrives after 5.
C4_Witness ==
    /\ AstarReturned
    /\ a_args.constraints = << VertexConstraint(NoAgent, 5, a_args.goal) >>
    /\ heuristic(a_args.start, a_args.goal) = 1
    /\ Arrival = 6

\* C5: a returned path starts on start, ends on goal, moves by waits and
\* 4-connected unit moves inside the grid, and its last index is at most t_max
\* (the bound the search uses: rows * cols * 2 when max_time is not positive).
C5_PathShape ==
    AstarReturned =>
        /\ a_result[1] = a_args.start
        /\ a_result[Len(a_result)] = a_args.goal
        /\ \A t \in 1 .. Arrival :
               /\ RefUnitStep(a_result[t], a_result[t + 1])
               /\ a_result[t + 1] \in Cells(a_args.grid_map)
        /\ Arrival <= RefTMax(a_args)

\* C5's case: a returned path that waits, then moves, and ends at t_max.
C5_Witness ==
    /\ AstarReturned
    /\ Arrival = RefTMax(a_args)
    /\ \E t \in 1 .. Arrival : a_result[t] = a_result[t + 1]
    /\ \E t \in 1 .. Arrival : a_result[t] # a_result[t + 1]

\* C6: no cell of a returned path is a static obstacle, the start included.
C6_NoObstacleCell ==
    AstarReturned =>
        \A t \in 0 .. Arrival :
            a_args.grid_map[a_result[t + 1][1] + 1][a_result[t + 1][2] + 1] # "#"

\* The most iterations the loop of a call can run: every iteration but the
\* last pops a node, and what is pushed is the start node and at most five
\* nodes for each cell and time up to t_max.
RefIterBound(args) ==
    5 * Cardinality(Cells(args.grid_map)) * (RefTMax(args) + 1) + 2

C8_ShortestPath ==
    AstarReturned =>
        /\ RefFeasible(a_args)
        /\ Arrival = RefShortest(a_args)
        /\ (a_args.constraints = <<>> /\ a_args.grid_map \in {Corridor3, Square2, Square3})
              => /\ Len(a_result) = heuristic(a_args.start, a_args.goal) + 1
                 /\ \A t \in 1 .. Arrival :
                        heuristic(a_result[t + 1], a_args.goal)
                            = heuristic(a_result[t], a_args.goal) - 1
        /\ (a_args.grid_map = Square3 /\ a_args.start = <<0, 0>> /\ a_args.goal = <<2, 2>>)
              => Len(a_result) = 5

\* C8's cases: the scenario S1, and a shortest path that is longer than the
\* Manhattan distance because of a constraint.
C8_Witness ==
    /\ AstarReturned
    /\ \/ /\ a_args.grid_map = Square3
          /\ a_args.start = <<0, 0>>
          /\ a_args.goal = <<2, 2>>
          /\ Len(a_result) = 5
       \/ /\ a_args.grid_map = Square2
          /\ a_args.constraints # <<>>
          /\ Arrival = heuristic(a_args.start, a_args.goal) + 2

(***************************************************************************)
(* cbs_search on small catalogs.                                           *)
(***************************************************************************)
CbsArgs(agents, grid_map, extra_constraints, max_astar_time) ==
    [agents |-> agents, grid_map |-> grid_map, extra_constraints |-> extra_constraints,
     max_astar_time |-> max_astar_time]

Catalogs(ids, grid_map) == [ids -> Cells(grid_map) \X Cells(grid_map)]

\* Every catalog of two agents on three small grids, equal cells included.
InitBare ==
    \E grid_map \in {Corridor4, Square2, Square2Wall} :
    \E agents \in Catalogs({"A", "B"}, grid_map) :
        CbsIdle(CbsArgs(agents, grid_map, <<>>, MaxT))

\* The head-on swap in the corridor of four cells (the spec's scenario S2),
\* with three time bounds.
SwapAgents == [aid \in {"A", "B"} |->
                  IF aid = "A" THEN << <<0, 0>>, <<0, 3>> >> ELSE << <<0, 3>>, <<0, 0>> >>]

InitSwap ==
    \E max_astar_time \in {MaxT, MaxT + 1, MaxT + 2} :
        CbsIdle(CbsArgs(SwapAgents, Corridor4, <<>>, max_astar_time))

\* Two agents from the two ends of the corridor of three cells, any goals,
\* under one global constraint or two global vertex constraints.
InitExtra ==
    \E ga \in Cells(Corridor3), gb \in Cells(Corridor3) :
    \E c1 \in {c \in VertexUniverse(Corridor3) \cup EdgeUniverse(Corridor3) :
                  c.agent = NoAgent} :
    \E c2 \in {c \in VertexUniverse(Corridor3) : c.agent = NoAgent} :
    \E extra_constraints \in {<<c1>>, <<c2, c1>>} :
        CbsIdle(CbsArgs([aid \in {"A", "B"} |->
                            IF aid = "A" THEN << <<0, 0>>, ga >> ELSE << <<0, 2>>, gb >>],
                        Corridor3, extra_constraints, MaxT))

\* Three agents that start on the three cells of the corridor, any goals.
InitThree ==
    \E ga \in Cells(Corridor3), gb \in Cells(Corridor3), gc \in Cells(Corridor3) :
        CbsIdle(CbsArgs([aid \in {"A", "B", "C"} |->
                            CASE aid = "A" -> << <<0, 0>>, ga >>
                              [] aid = "B" -> << <<0, 1>>, gb >>
                              [] OTHER -> << <<0, 2>>, gc >>],
                        Corridor3, <<>>, MaxT))

Init ==
    /\ InitBare \/ InitSwap \/ InitExtra \/ InitThree
    /\ AstarUnused
    /\ DetectUnused
    /\ AuctionUnused
    /\ AirspaceUnused
    /\ CoreUnused

Next ==
    \/ CbsRoot /\ UNCHANGED not_c
    \/ CbsExhausted /\ UNCHANGED not_c
    \/ CbsReturn /\ UNCHANGED not_c
    \/ CbsExpand /\ UNCHANGED not_c

Spec == Init /\ [][Next]_vars

(***************************************************************************)
(* What the claims about cbs_search speak of, written from the claims:     *)
(* where an agent is at a time, when two paths are conflict-free, and the  *)
(* paths that are valid for one agent alone.                               *)
(***************************************************************************)
CbsReturned == c_pc = "done" /\ c_result.found

\* The cell a path occupies at time t: its cell of index t, then its last cell
\* for the two ticks after its last index; nothing afterwards.
RefPos(path, t) ==
    IF t <= Len(path) - 1
    THEN path[t + 1]
    ELSE IF t <= (Len(path) - 1) + 2 THEN path[Len(path)] ELSE NoPos

RefSameCell(p, q, t) == RefPos(p, t) # NoPos /\ RefPos(p, t) = RefPos(q, t)

RefSwap(p, q, t) ==
    /\ NoPos \notin {RefPos(p, t - 1), RefPos(p, t), RefPos(q, t - 1), RefPos(q, t)}
    /\ RefPos(p, t) = RefPos(q, t - 1)
    /\ RefPos(q, t) = RefPos(p, t - 1)

\* Two paths never share a cell and never swap cells, up to the horizon.
RefPairFree(p, q, horizon) ==
    /\ \A t \in 0 .. horizon - 1 : ~RefSameCell(p, q, t)
    /\ \A t \in 1 .. horizon - 1 : ~RefSwap(p, q, t)

RefLongest(paths) ==
    CHOOSE n \in {Len(paths[a]) : a \in DOMAIN paths} :
        \A a \in DOMAIN paths : Len(paths[a]) <= n

RefConflictFree(paths) ==
    \A a \in DOMAIN paths, b \in DOMAIN paths :
        a # b => RefPairFree(paths[a], paths[b], RefLongest(paths) + 2)

RefDistinctStarts(args) ==
    \A a \in DOMAIN args.agents, b \in DOMAIN args.agents :
        a # b => args.agents[a][1] # args.agents[b][1]

\* The low-level problem of one agent of the catalog.
RefAgentArgs(args, aid) ==
    AstarArgs(args.agents[aid][1], args.agents[aid][2], args.extra_constraints,
              args.grid_map, aid, args.max_astar_time)

\* The walks of t moves that are valid for the agent alone: the start is an
\* open cell that no applicable vertex constraint forbids at time 0, and every
\* move is a wait or a unit move onto an open cell that no applicable
\* constraint forbids.
RECURSIVE RefWalks(_, _)
RefWalks(args, t) ==
    IF t = 0
    THEN IF RefOpen(args.grid_map, args.start) /\ ~RefVertexForbids(args, 0, args.start)
         THEN { <<args.start>> }
         ELSE {}
    ELSE { Append(x[1], x[2]) :
             x \in { y \in RefWalks(args, t - 1) \X Cells(args.grid_map) :
                       /\ RefOpen(args.grid_map, y[2])
                       /\ RefUnitStep(y[1][t], y[2])
                       /\ ~RefVertexForbids(args, t, y[2])
                       /\ ~RefEdgeForbids(args, t, y[1][t], y[2]) } }

\* The valid paths of the agent: the valid walks of at most t_max moves that
\* end on the goal, the goal being free of applicable vertex constraints from
\* the arrival up to t_max.
RefValidPaths(args) ==
    UNION { { w \in RefWalks(args, t) : w[t + 1] = args.goal /\ RefGoalFree(args, t) } :
            t \in 0 .. RefTMax(args) }

\* Some valid path per agent of ids is conflict-free with the chosen paths
\* and with each other.
RECURSIVE RefCanExtend(_, _, _)
RefCanExtend(args, chosen, ids) ==
    IF ids = <<>>
    THEN TRUE
    ELSE \E p \in RefValidPaths(RefAgentArgs(args, Head(ids))) :
            /\ \A i \in DOMAIN chosen : RefPairFree(p, chosen[i], Len(p) + Len(chosen[i]) + 2)
            /\ RefCanExtend(args, Append(chosen, p), Tail(ids))

RefSolvable(args) == RefCanExtend(args, <<>>, Items(args.agents))

\* C1: whenever cbs_search returns a solution, its paths are pairwise
\* conflict-free with a landing hold of two ticks: at no time below the
\* longest path length + 2 do two agents occupy the same cell (an agent whose
\* path ended at index L still occupies its goal at L+1 and L+2), and no two
\* agents swap cells between t-1 and t.
C1_SolutionConflictFree == CbsReturned => RefConflictFree(c_result.paths)

\* C1's case: a solution found after branching, in which one agent's path
\* runs over the goal of another agent.
C1_Witness ==
    /\ CbsReturned
    /\ c_pops >= 2
    /\ \E a \in DOMAIN c_result.paths, b \in DOMAIN c_result.paths :
          /\ a # b
          /\ \E i \in 1 .. Len(c_result.paths[b]) - 1 :
                c_result.paths[b][i] = c_args.agents[a][2]

\* C2: cbs_search terminates for every catalog, agents with equal start cells
\* included: no call is still searching after MaxPops nodes were popped.
C2_CbsTerminates == c_pc = "done" \/ c_pops < MaxPops

\* The calls whose agents start on distinct cells all return before MaxPops
\* nodes were popped: only catalogs with equal start cells search on.
C2_DistinctStartsReturn ==
    RefDistinctStarts(c_args) => (c_pc = "done" \/ c_pops < MaxPops)

\* C9: completeness. When some assignment of one valid path per agent is
\* conflict-free, cbs_search returns a solution: it neither returns None nor
\* is it still searching after MaxPops nodes were popped.
C9_Complete ==
    /\ (c_pc = "done" /\ ~c_result.found) => ~RefSolvable(c_args)
    /\ (c_pc # "done" /\ c_pops = MaxPops) => ~RefSolvable(c_args)

\* C9's case: a solvable instance whose solution took branching to find.
C9_Witness ==
    /\ CbsReturned
    /\ c_pops >= 3
    /\ RefSolvable(c_args)

\* The spec's scenario S2: the head-on swap in the corridor of four cells.
S2Instance ==
    /\ c_args.grid_map = Corridor4
    /\ c_args.agents = SwapAgents
    /\ c_args.extra_constraints = <<>>

\* C10 as stated: on S2 cbs_search returns a plan in which at least one agent
\* waits or detours (its path is longer than the four cells of the straight
\* run), and the conflict branched on at the root is an edge conflict.
C10_SwapFindsPlan ==
    S2Instance =>
        /\ c_pops = 1 => c_conflict.type = "edge"
        /\ c_pc = "done" =>
              /\ c_result.found
              /\ \E a \in DOMAIN c_result.paths : Len(c_result.paths[a]) > 4

\* C10 as amended: S2 has no conflict-free assignment of valid paths, and
\* cbs_search returns no plan for it: whenever the search ends it returns
\* None; the conflict branched on at the root is the edge conflict of the
\* swap of <<0, 1>> and <<0, 2>> at time 2.
C10_SwapHasNoPlan ==
    S2Instance =>
        /\ c_pc = "idle" => ~RefSolvable(c_args)
        /\ c_pops = 1 =>
              /\ c_conflict.type = "edge"
              /\ c_conflict.time = 2
              /\ {c_conflict.a1_from, c_conflict.a1_to} = {<<0, 1>>, <<0, 2>>}
        /\ c_pc = "done" => ~c_result.found

\* C10's case: the search of S2 ended after it branched on several nodes.
C10_Witness ==
    /\ S2Instance
    /\ c_pc = "done"
    /\ c_pops >= 5

\* The sum of the path lengths of a path map.
RECURSIVE RefCostOf(_, _)
RefCostOf(paths, ids) ==
    IF ids = {}
    THEN 0
    ELSE LET a == CHOOSE x \in ids : TRUE
         IN  Len(paths[a]) + RefCostOf(paths, ids \ {a})

RefCost(paths) == RefCostOf(paths, DOMAIN paths)

\* The last loop iteration branched on a conflict of the node it popped.
CbsBranched == c_pops >= 1 /\ c_conflict.type # "none"

\* C16: every child of the node just branched costs (sum of path lengths) at
\* least what its parent costs, and no node of the open set costs less than
\* the node popped last, so the costs of the popped nodes never decrease.
C16_CostMonotone ==
    /\ CbsBranched =>
          \A i \in DOMAIN Children(c_args, c_node, c_conflict) :
              RefCost(Children(c_args, c_node, c_conflict)[i].paths) >= RefCost(c_node.paths)
    /\ c_pops >= 1 =>
          \A i \in DOMAIN c_open_heap :
              /\ c_open_heap[i].cost = RefCost(c_open_heap[i].paths)
              /\ c_open_heap[i].cost >= RefCost(c_node.paths)

\* C16's case: a node popped after the root, both of whose children cost more
\* than it does.
C16_Witness ==
    /\ CbsBranched
    /\ c_pops >= 2
    /\ Len(Children(c_args, c_node, c_conflict)) = 2
    /\ \A i \in DOMAIN Children(c_args, c_node, c_conflict) :
          Children(c_args, c_node, c_conflict)[i].cost > c_node.cost

\* C17: the conflict branched on is one that detect_conflict reports for the
\* popped node's paths, and none of the reported conflicts has a smaller time;
\* before that time no two agents share a cell or swap cells.
C17_EarliestConflict ==
    CbsBranched =>
        LET conflicts == detect_conflict(c_node.paths, 2)
        IN  /\ \E i \in DOMAIN conflicts : conflicts[i] = c_conflict
            /\ \A i \in DOMAIN conflicts : conflicts[i].time >= c_conflict.time
            /\ \A a \in DOMAIN c_node.paths, b \in DOMAIN c_node.paths :
                  a # b => RefPairFree(c_node.paths[a], c_node.paths[b], c_conflict.time)

\* C17's case: the node has conflicts at several times, and the list does
\* not begin with the one branched on.
C17_Witness ==
    /\ CbsBranched
    /\ LET conflicts == detect_conflict(c_node.paths, 2)
       IN  /\ \E i \in DOMAIN conflicts : conflicts[i].time > c_conflict.time
           /\ conflicts[1] # c_conflict

\* The bag of the elements of a sequence.
RefBag(seq) ==
    [x \in {seq[i] : i \in DOMAIN seq} |-> Cardinality({i \in DOMAIN seq : seq[i] = x})]

\* The constraint the claim lets a child add for agent a of a conflict: the
\* conflict cell, or the agent's own transition, at the conflict's time.
RefBranchConstraint(conflict, a) ==
    IF conflict.type = "vertex"
    THEN [agent |-> a, time |-> conflict.time, type |-> "vertex", pos |-> conflict.pos,
          from |-> NoPos, to |-> NoPos]
    ELSE [agent |-> a, time |-> conflict.time, type |-> "edge", pos |-> NoPos,
          from |-> IF a = conflict.agent1 THEN conflict.a1_from ELSE conflict.a2_from,
          to |-> IF a = conflict.agent1 THEN conflict.a1_to ELSE conflict.a2_to]

\* child is the parent with one constraint appended for agent a, whose path
\* alone was replaced.
RefChildOf(child, parent, conflict, a) ==
    /\ child.constraints = Append(parent.constraints, RefBranchConstraint(conflict, a))
    /\ DOMAIN child.paths = DOMAIN parent.paths
    /\ \A b \in DOMAIN parent.paths \ {a} : child.paths[b] = parent.paths[b]
    /\ child.paths[a] # NoPath

\* Replanning agent a under the parent's constraints and the added one can
\* succeed.
RefReplans(args, parent, conflict, a) ==
    RefFeasible(AstarArgs(args.agents[a][1], args.agents[a][2],
                          Append(parent.constraints, RefBranchConstraint(conflict, a)),
                          args.grid_map, a, args.max_astar_time))

\* C20: an expansion enqueues, next to what the open set held, one child per
\* conflicting agent that can be replanned and none for an agent that cannot;
\* each child is the parent with exactly one constraint appended for that
\* agent and that agent's path replaced; the popped node is left as it was,
\* its constraint list begins with the caller's extra_constraints, and the
\* arguments of the call are left unchanged.
C20_ChildFrame ==
    [][(c_pc = "loop" /\ c_pc' = "loop" /\ c_pops' = c_pops + 1) =>
        LET parent == c_open_heap[1]
            conflict == c_conflict'
            two == {conflict.agent1, conflict.agent2}
            added == RefBag(c_open_heap') (-) (RefBag(c_open_heap) (-) SetToBag({parent}))
        IN  /\ c_node' = parent
            /\ c_args' = c_args
            /\ SubSeq(parent.constraints, 1, Len(c_args.extra_constraints))
                   = c_args.extra_constraints
            /\ \A child \in BagToSet(added) :
                  \E a \in two : RefChildOf(child, parent, conflict, a)
            /\ \A a \in two :
                  RefReplans(c_args, parent, conflict, a)
                      <=> \E child \in BagToSet(added) : RefChildOf(child, parent, conflict, a)
            /\ BagCardinality(added) = Cardinality({a \in two : RefReplans(c_args, parent, conflict, a)})
      ]_vars

\* C20's case: an expansion after the root's that enqueued one child only,
\* the other agent having no path under its added constraint.
C20_Witness ==
    /\ CbsBranched
    /\ c_pops >= 2
    /\ Len(Children(c_args, c_node, c_conflict)) = 1

(***************************************************************************)
(* detect_conflict on its own: paths that are any sequences of cells.      *)
(***************************************************************************)
\* The non-empty sequences of at most n cells.
PathsUpTo(cells, n) == UNION { [1 .. k -> cells] : k \in 1 .. n }

\* Up to two agents on the cells of the corridor of three cells.
InitDetectPairs ==
    \E ids \in SUBSET {"A", "B"} :
    \E paths \in [ids -> PathsUpTo(Cells(Corridor3), DetectLen)] :
    \E landing_hold \in 0 .. MaxHold :
        DetectIdle(paths, landing_hold)

\* Three agents on two cells.
InitDetectThree ==
    \E paths \in [{"A", "B", "C"} -> PathsUpTo({<<0, 0>>, <<0, 1>>}, DetectLen)] :
    \E landing_hold \in 0 .. MaxHold :
        DetectIdle(paths, landing_hold)

InitDetect ==
    /\ InitDetectPairs \/ InitDetectThree
    /\ AstarUnused
    /\ CbsUnused
    /\ AuctionUnused
    /\ AirspaceUnused
    /\ CoreUnused

DetectCall ==
    /\ d_pc = "idle"
    /\ d_result' = detect_conflict(d_paths, d_landing_hold)
    /\ d_pc' = "done"
    /\ UNCHANGED <<d_paths, d_landing_hold, not_d>>

NextDetect == DetectCall

SpecDetect == InitDetect /\ [][NextDetect]_vars

\* The claim's pos(a, t): the cell of index t, the goal for landing_hold ticks
\* after the path, absent afterwards.
RefPosHold(path, t, landing_hold) ==
    IF t < Len(path)
    THEN path[t + 1]
    ELSE IF Len(path) <= t /\ t < Len(path) + landing_hold
         THEN path[Len(path)]
         ELSE NoPos

RefHorizon(paths, landing_hold) ==
    IF DOMAIN paths = {} THEN 0 ELSE RefLongest(paths) + landing_hold

\* The unordered pairs of agents.
RefPairs(paths) == { pair \in SUBSET DOMAIN paths : Cardinality(pair) = 2 }

\* The reference vertex conflicts: <<t, pair, cell>>.
RefVertexSet(paths, landing_hold) ==
    { x \in (0 .. RefHorizon(paths, landing_hold) - 1) \X RefPairs(paths)
                 \X UNION { {paths[a][i] : i \in DOMAIN paths[a]} : a \in DOMAIN paths } :
        \A a \in x[2] : RefPosHold(paths[a], x[1], landing_hold) = x[3] }

\* Agents a and b exchange two different cells between t - 1 and t.
RefExchange(paths, landing_hold, t, a, b) ==
    LET a0 == RefPosHold(paths[a], t - 1, landing_hold)
        a1 == RefPosHold(paths[a], t, landing_hold)
        b0 == RefPosHold(paths[b], t - 1, landing_hold)
        b1 == RefPosHold(paths[b], t, landing_hold)
    IN  /\ NoPos \notin {a0, a1, b0, b1}
        /\ a1 = b0
        /\ b1 = a0
        /\ a0 # a1

\* The reference edge conflicts: <<t, pair>>, at any time an agent is present.
RefEdgeSet(paths, landing_hold) ==
    { x \in (1 .. RefHorizon(paths, landing_hold) + 1) \X RefPairs(paths) :
        \E a \in x[2], b \in x[2] : a # b /\ RefExchange(paths, landing_hold, x[1], a, b) }

\* What a reported conflict says, agent order aside.
RefVertexReported(conflicts) ==
    { <<conflicts[i].time, {conflicts[i].agent1, conflicts[i].agent2}, conflicts[i].pos>> :
        i \in {j \in DOMAIN conflicts : conflicts[j].type = "vertex"} }

RefEdgeReported(conflicts) ==
    { <<conflicts[i].time, {conflicts[i].agent1, conflicts[i].agent2}>> :
        i \in {j \in DOMAIN conflicts : conflicts[j].type = "edge"} }

\* C18: detect_conflict returns exactly the reference conflicts: one vertex
\* conflict per unordered pair of agents and time below the horizon at which
\* both are on one cell, one edge conflict per unordered pair and time >= 1 at
\* which they exchange two different cells (each agent's own transition
\* recorded), every conflict once, and nothing else.
C18_DetectExact ==
    d_pc = "done" =>
        /\ RefVertexReported(d_result) = RefVertexSet(d_paths, d_landing_hold)
        /\ RefEdgeReported(d_result) = RefEdgeSet(d_paths, d_landing_hold)
        /\ Len(d_result) = Cardinality(RefVertexSet(d_paths, d_landing_hold))
                              + Cardinality(RefEdgeSet(d_paths, d_landing_hold))
        /\ \A i \in DOMAIN d_result :
              LET c == d_result[i]
              IN  /\ c.type \in {"vertex", "edge"}
                  /\ c.agent1 # c.agent2
                  /\ c.type = "edge" =>
                        /\ c.a1_from = RefPosHold(d_paths[c.agent1], c.time - 1, d_landing_hold)
                        /\ c.a1_to = RefPosHold(d_paths[c.agent1], c.time, d_landing_hold)
                        /\ c.a2_from = RefPosHold(d_paths[c.agent2], c.time - 1, d_landing_hold)
                        /\ c.a2_to = RefPosHold(d_paths[c.agent2], c.time, d_landing_hold)

\* C18's case: three agents, an edge conflict, a vertex conflict at a time
\* an agent is held on its goal, and an agent that waits a tick.
C18_Witness ==
    /\ d_pc = "done"
    /\ DOMAIN d_paths = {"A", "B", "C"}
    /\ \E i \in DOMAIN d_result : d_result[i].type = "edge"
    /\ \E i \in DOMAIN d_result :
          /\ d_result[i].type = "vertex"
          /\ d_result[i].time >= Len(d_paths[d_result[i].agent1])
    /\ \E a \in DOMAIN d_paths :
          Len(d_paths[a]) >= 2 /\ d_paths[a][1] = d_paths[a][2]

(***************************************************************************)
(* cbs_search as one function, for its caller multi_round_auction: the     *)
(* loop of CbsReturn, CbsExpand and CbsExhausted run to its end.  A call   *)
(* that pops MaxPops nodes without an end is taken not to return.          *)
(***************************************************************************)
CbsOutcome(returned, value, pops) == [returned |-> returned, value |-> value, pops |-> pops]

RECURSIVE CbsLoop(_, _, _)
CbsLoop(args, open_heap, pops) ==
    IF open_heap = <<>>
    THEN CbsOutcome(TRUE, NoSolution, pops)
    ELSE IF pops >= MaxPops
         THEN CbsOutcome(FALSE, NoSolution, pops)
         ELSE LET node == open_heap[1]
                  conflicts == detect_conflict(node.paths, 2)
              IN  IF conflicts = <<>>
                  THEN CbsOutcome(TRUE, Solution(node.paths), pops + 1)
                  ELSE CbsLoop(args,
                               PushAll(heappop(open_heap),
                                       Children(args, node, EarliestConflict(conflicts))),
                               pops + 1)

cbs_search(agents, grid_map, extra_constraints, max_astar_time) ==
    LET args == CbsArgs(agents, grid_map, extra_constraints, max_astar_time)
        root_paths == RootPaths(args)
    IN  IF \E aid \in DOMAIN root_paths : root_paths[aid] = NoPath
        THEN CbsOutcome(TRUE, NoSolution, 0)
        ELSE CbsLoop(args, << CBSNode(extra_constraints, root_paths) >>, 0)

(***************************************************************************)
(* multi_round_auction.  Amounts of money are whole numbers of PriceUnit-th *)
(* of 1.0, which holds every amount of the first rounds exactly.           *)
(***************************************************************************)
PriceUnit == 1600
\* 0.01 in price units.
Cent == 16
\* base_price = 10.0.
DefaultBasePrice == 10 * PriceUnit

\* round(x, 2): the nearest multiple of 0.01, a tie going to the even one.
Round2(x) ==
    LET low == (x \div Cent) * Cent
        rest == x - low
    IN  IF rest * 2 < Cent \/ (rest * 2 = Cent /\ (x \div Cent) % 2 = 0)
        THEN low
        ELSE low + Cent

\* "if solution": a dict that is not None and not empty.
Truthy(value) == value.found /\ DOMAIN value.paths # {}

\* The unconstrained paths of a round, each agent planned alone.
AuctionRootPaths(args) ==
    [aid \in DOMAIN args.agents |->
        astar_search(args.agents[aid][1], args.agents[aid][2], <<>>, args.grid_map, aid,
                     DefaultMaxTime)]

\* A variant that names the first agent of the catalog when some agent has no
\* path.
FirstWithoutPathMisnamed(root_paths, ids) ==
    IF \E i \in DOMAIN ids : root_paths[ids[i]] = NoPath THEN Head(ids) ELSE NoAgent

\* The first agent, in the catalog's order, that has no path.
RECURSIVE FirstWithoutPath(_, _)
FirstWithoutPath(root_paths, ids) ==
    IF ids = <<>>
    THEN NoAgent
    ELSE IF root_paths[Head(ids)] = NoPath
         THEN Head(ids)
         ELSE FirstWithoutPath(root_paths, Tail(ids))

\* counter[pos] += 1 on a dict that keeps the order of insertion.
CounterAdd(counter, pos) ==
    IF \E i \in DOMAIN counter : counter[i].pos = pos
    THEN [i \in DOMAIN counter |->
            IF counter[i].pos = pos
            THEN [counter[i] EXCEPT !.count = @ + 1]
            ELSE counter[i]]
    ELSE Append(counter, [pos |-> pos, count |-> 1])

\* A variant that counts the vertex conflicts only.
RECURSIVE CongestionVertexOnly(_, _, _)
CongestionVertexOnly(conflicts, i, counter) ==
    IF i > Len(conflicts)
    THEN counter
    ELSE CongestionVertexOnly(conflicts, i + 1,
                              IF conflicts[i].type = "vertex"
                              THEN CounterAdd(counter, conflicts[i].pos)
                              ELSE counter)

RECURSIVE Congestion(_, _, _)
Congestion(conflicts, i, counter) ==
    IF i > Len(conflicts)
    THEN counter
    ELSE LET c == conflicts[i]
         IN  Congestion(conflicts, i + 1,
                        IF c.type = "vertex"
                        THEN CounterAdd(counter, c.pos)
                        ELSE CounterAdd(CounterAdd(counter, c.a1_to), c.a2_to))

\* The priced cells of a round (strategy 'linear').
Auctions(counter, base_price) ==
    [i \in DOMAIN counter |->
        [pos |-> counter[i].pos, count |-> counter[i].count,
         price |-> Round2(base_price * counter[i].count)]]

\* The bids of a round: random.random() < 0.7 decides whether an item gets a
\* bid (choice[i] # 0), random.uniform(1, 1.5) its factor, here choice[i] / 2.
BidFactors == {0, 2, 3}

RECURSIVE Bids(_, _, _)
Bids(auctions, choice, i) ==
    IF i > Len(auctions)
    THEN <<>>
    ELSE (IF choice[i] # 0
          THEN << [pos |-> auctions[i].pos,
                   bid |-> Round2((auctions[i].price * choice[i]) \div 2)] >>
          ELSE <<>>) \o Bids(auctions, choice, i + 1)

\* max(prices[pos]['price'] for pos in bids.keys()).
MaxBidPrice(auctions, bids) ==
    LET prices == { auctions[i].price :
                      i \in { j \in DOMAIN auctions :
                                \E k \in DOMAIN bids : bids[k].pos = auctions[j].pos } }
    IN  CHOOSE x \in prices : \A y \in prices : y <= x

\* The global vertex constraints of one round: every bid cell at every time
\* below the horizon.
RECURSIVE AuctionConstraints(_, _, _)
AuctionConstraints(bids, i, t) ==
    IF i > Len(bids)
    THEN <<>>
    ELSE IF t >= Horizon
         THEN AuctionConstraints(bids, i + 1, 0)
         ELSE << VertexConstraint(NoAgent, t, bids[i].pos) >>
                  \o AuctionConstraints(bids, i, t + 1)

\* A cbs_search call, as recorded in m_calls.
CbsCall(round_id, extra_constraints, outcome) ==
    [round |-> round_id, extra_constraints |-> extra_constraints, outcome |-> outcome]

AuctionArgs(agents, grid_map, max_rounds) ==
    [agents |-> agents, grid_map |-> grid_map, max_rounds |-> max_rounds,
     base_price |-> DefaultBasePrice, strategy |-> "linear"]

\* Every catalog of no, one or two agents on three small grids.
InitAuctionSmall ==
    \E grid_map \in {Corridor3, Corridor3Blocked, Square2} :
    \E ids \in {{}, {"A"}, {"A", "B"}} :
    \E agents \in Catalogs(ids, grid_map) :
    \E max_rounds \in 0 .. MaxRounds :
        AuctionIdle(AuctionArgs(agents, grid_map, max_rounds))

\* The head-on swap in the corridor of four cells.
InitAuctionSwap ==
    \E max_rounds \in 0 .. MaxRounds :
        AuctionIdle(AuctionArgs(SwapAgents, Corridor4, max_rounds))

InitAuction ==
    /\ InitAuctionSmall \/ InitAuctionSwap
    /\ AstarUnused
    /\ CbsUnused
    /\ DetectUnused
    /\ AirspaceUnused
    /\ CoreUnused

\* Round 0: cbs_search on the bare problem.
AuctionStart ==
    /\ m_pc = "idle"
    /\ LET out == cbs_search(m_args.agents, m_args.grid_map, <<>>, DefaultMaxTime)
       IN  /\ m_calls' = << CbsCall(0, <<>>, out) >>
           /\ IF ~out.returned
              THEN /\ m_pc' = "hung"
                   /\ UNCHANGED <<m_round_id, m_result>>
              ELSE IF Truthy(out.value)
                   THEN /\ m_pc' = "done"
                        /\ m_result' = Outcome({"solution"}, out.value.paths, <<>>, "", "")
                        /\ UNCHANGED m_round_id
                   ELSE /\ m_pc' = "round"
                        /\ m_round_id' = 1
                        /\ UNCHANGED m_result
    /\ UNCHANGED <<m_args, m_history, m_base_price, m_constraints, not_m>>

\* The state one round leaves, the draws of the random module being choice.
RoundEnd(pc, round_id, history, base_price, constraints, calls, result) ==
    [pc |-> pc, round_id |-> round_id, history |-> history, base_price |-> base_price,
     constraints |-> constraints, calls |-> calls, result |-> result]

RoundStays(pc, result) ==
    RoundEnd(pc, m_round_id, m_history, m_base_price, m_constraints, m_calls, result)

AuctionRoundBody(auctions, choice) ==
    LET bids == Bids(auctions, choice, 1)
        history == Append(m_history,
                          [round |-> m_round_id, auctions |-> auctions, bids |-> bids])
    IN  IF bids = <<>>
        THEN RoundEnd("done", m_round_id, history, m_base_price, m_constraints, m_calls,
                      Outcome({"auctions", "reason"}, <<>>, history, "No bidders", ""))
        ELSE LET base_price == (m_base_price + MaxBidPrice(auctions, bids)) \div 2
                 auction_constraints == AuctionConstraints(bids, 1, 0)
                 out == cbs_search(m_args.agents, m_args.grid_map, auction_constraints,
                                   DefaultMaxTime)
                 calls == Append(m_calls, CbsCall(m_round_id, auction_constraints, out))
             IN  IF ~out.returned
                 THEN RoundEnd("hung", m_round_id, history, base_price,
                               auction_constraints, calls, m_result)
                 ELSE IF Truthy(out.value)
                      THEN RoundEnd("done", m_round_id, history, base_price,
                                    auction_constraints, calls,
                                    Outcome({"solution", "auctions"}, out.value.paths,
                                            history, "", ""))
                      ELSE RoundEnd("round", m_round_id + 1, history, base_price,
                                    auction_constraints, calls, m_result)

\* One round of the for loop.
AuctionRound ==
    /\ m_pc = "round"
    /\ m_round_id <= m_args.max_rounds
    /\ LET root_paths == AuctionRootPaths(m_args)
           stuck == FirstWithoutPath(root_paths, Items(m_args.agents))
           counter == IF stuck # NoAgent
                      THEN <<>>
                      ELSE Congestion(detect_conflict(root_paths, 2), 1, <<>>)
           auctions == Auctions(counter, m_base_price)
       IN  \E choice \in [DOMAIN auctions -> BidFactors] :
             LET end == IF stuck # NoAgent
                        THEN RoundStays("done", Outcome({"error"}, <<>>, <<>>, "", stuck))
                        ELSE IF counter = <<>>
                             THEN RoundStays("done",
                                             Outcome({"auctions", "reason"}, <<>>, m_history,
                                                     "No congestion", ""))
                             ELSE AuctionRoundBody(auctions, choice)
             IN  /\ m_pc' = end.pc
                 /\ m_round_id' = end.round_id
                 /\ m_history' = end.history
                 /\ m_base_price' = end.base_price
                 /\ m_constraints' = end.constraints
                 /\ m_calls' = end.calls
                 /\ m_result' = end.result
    /\ UNCHANGED <<m_args, not_m>>

\* The for loop, had it run out one round early (range(1, max_rounds)).
AuctionExceededEarly ==
    /\ m_pc = "round"
    /\ m_round_id >= m_args.max_rounds
    /\ m_pc' = "done"
    /\ m_result' = Outcome({"auctions", "reason"}, <<>>, m_history, "Exceeded max rounds", "")
    /\ UNCHANGED <<m_args, m_round_id, m_history, m_base_price, m_constraints, m_calls,
                   not_m>>

\* The for loop ran out of rounds.
AuctionExceeded ==
    /\ m_pc = "round"
    /\ m_round_id > m_args.max_rounds
    /\ m_pc' = "done"
    /\ m_result' = Outcome({"auctions", "reason"}, <<>>, m_history, "Exceeded max rounds", "")
    /\ UNCHANGED <<m_args, m_round_id, m_history, m_base_price, m_constraints, m_calls,
                   not_m>>

NextAuction == AuctionStart \/ AuctionRound \/ AuctionExceeded

SpecAuction == InitAuction /\ [][NextAuction]_vars

(***************************************************************************)
(* What the claims about multi_round_auction speak of.                     *)
(***************************************************************************)
AuctionReturned == m_pc = "done"

\* The first cbs_search call, on the bare problem, has returned.
BareReturned == m_pc # "idle" /\ m_calls[1].outcome.returned

BareOutcome == m_calls[1].outcome.value

\* The low-level problem of one agent without constraints.
RefBareArgs(args, aid) ==
    AstarArgs(args.agents[aid][1], args.agents[aid][2], <<>>, args.grid_map, aid,
              DefaultMaxTime)

\* The agent has a path on the grid: its start is an open cell and moves over
\* open cells lead to its goal.
RefHasPath(args, aid) ==
    /\ RefOpen(args.grid_map, args.agents[aid][1])
    /\ RefFeasible(RefBareArgs(args, aid))

\* C11: whenever cbs_search on the bare problem returns a solution (not
\* None), multi_round_auction has returned exactly that solution, with no
\* other key, no auction round and no further cbs_search call.
C11_BareSolutionReturned ==
    (BareReturned /\ BareOutcome.found) =>
        /\ AuctionReturned
        /\ m_result.keys = {"solution"}
        /\ m_result.solution = BareOutcome.paths
        /\ m_history = <<>>
        /\ Len(m_calls) = 1

\* C11 holds for every catalog that has an agent.
C11_NonEmptyCatalog == DOMAIN m_args.agents # {} => C11_BareSolutionReturned

\* The cells of a list of global vertex constraints that are forbidden at
\* every time below the horizon.
RefForbiddenCells(constraints) ==
    { p \in { constraints[i].pos : i \in DOMAIN constraints } :
        \A t \in 0 .. Horizon - 1 :
            \E i \in DOMAIN constraints :
                constraints[i] = [agent |-> NoAgent, time |-> t, type |-> "vertex",
                                  pos |-> p, from |-> NoPos, to |-> NoPos] }

RefBidCells(record) == { record.bids[i].pos : i \in DOMAIN record.bids }

\* C12: the constraints passed to cbs_search in round k forbid, at every time
\* below the horizon, every cell that received a bid in a round 1..k.
C12_ConstraintsAccumulate ==
    \A i \in DOMAIN m_calls :
        \A h \in 1 .. m_calls[i].round :
            RefBidCells(m_history[h]) \subseteq RefForbiddenCells(m_calls[i].extra_constraints)

\* What the code does: the constraints of round k forbid the cells that
\* received a bid in round k, and no other cell.
C12_CurrentRoundOnly ==
    \A i \in DOMAIN m_calls :
        m_calls[i].round >= 1 =>
            /\ RefForbiddenCells(m_calls[i].extra_constraints)
                   = RefBidCells(m_history[m_calls[i].round])
            /\ Len(m_calls[i].extra_constraints)
                   = Horizon * Cardinality(RefBidCells(m_history[m_calls[i].round]))

\* C13: a returned outcome has one of three shapes: a solution, with or
\* without the history, and no reason or error; the history and one of the
\* three reasons, and no solution; or only an error that names an agent
\* without a path.  A returned solution is one a cbs_search call returned.
C13_OutcomeShapes ==
    /\ ~AuctionReturned => m_result = NoOutcome
    /\ AuctionReturned =>
          \/ /\ m_result.keys \in {{"solution"}, {"solution", "auctions"}}
             /\ \E i \in DOMAIN m_calls :
                   /\ m_calls[i].outcome.returned
                   /\ m_calls[i].outcome.value.found
                   /\ m_calls[i].outcome.value.paths = m_result.solution
             /\ "auctions" \in m_result.keys => m_result.auctions = m_history
          \/ /\ m_result.keys = {"auctions", "reason"}
             /\ m_result.reason \in {"No congestion", "No bidders", "Exceeded max rounds"}
             /\ m_result.auctions = m_history
          \/ /\ m_result.keys = {"error"}
             /\ m_result.error \in DOMAIN m_args.agents
             /\ ~RefFeasible(RefBareArgs(m_args, m_result.error))

\* C13's case: a call that returned the history of two rounds, the second of
\* which received no bid.
C13_Witness ==
    /\ AuctionReturned
    /\ m_result.keys = {"auctions", "reason"}
    /\ m_result.reason = "No bidders"
    /\ Len(m_result.auctions) = 2

\* C14: when some agent has no path on the grid, astar_search returns None
\* for it, cbs_search on the bare problem returns None at the root, no node
\* popped, and multi_round_auction with max_rounds >= 1 returns the error
\* that names such an agent, no price or bid computed.
C14_InfeasibleIsError ==
    LET stuck == { a \in DOMAIN m_args.agents : ~RefHasPath(m_args, a) }
    IN  (stuck # {} /\ m_args.max_rounds >= 1) =>
            /\ m_pc # "hung"
            /\ m_pc # "idle" => m_calls = << CbsCall(0, <<>>, CbsOutcome(TRUE, NoSolution, 0)) >>
            /\ m_history = <<>>
            /\ AuctionReturned =>
                  /\ m_result.keys = {"error"}
                  /\ m_result.error \in stuck

\* C14 holds when an agent that starts on an obstacle cell counts as having
\* the path astar_search finds for it.
C14_InfeasibleByMoves ==
    LET stuck == { a \in DOMAIN m_args.agents : ~RefFeasible(RefBareArgs(m_args, a)) }
    IN  (stuck # {} /\ m_args.max_rounds >= 1) =>
            /\ m_pc # "hung"
            /\ m_pc # "idle" => m_calls = << CbsCall(0, <<>>, CbsOutcome(TRUE, NoSolution, 0)) >>
            /\ m_history = <<>>
            /\ AuctionReturned =>
                  /\ m_result.keys = {"error"}
                  /\ m_result.error \in stuck

\* C15: when cbs_search on the bare problem returned None although every
\* agent has an unconstrained path, every executed round priced a cell, and
\* the outcome is a solution, no-bidders or exceeded-max-rounds, never
\* no-congestion.
C15_NeverNoCongestion ==
    (/\ BareReturned
     /\ ~BareOutcome.found
     /\ \A a \in DOMAIN m_args.agents : RefFeasible(RefBareArgs(m_args, a))) =>
        /\ \A h \in DOMAIN m_history : m_history[h].auctions # <<>>
        /\ AuctionReturned =>
              \/ "solution" \in m_result.keys
              \/ /\ m_result.keys = {"auctions", "reason"}
                 /\ m_result.reason \in {"No bidders", "Exceeded max rounds"}

\* C15's case: the bare problem has no plan, every agent has a path, and two
\* rounds that priced cells and received bids were executed.
C15_Witness ==
    /\ AuctionReturned
    /\ ~BareOutcome.found
    /\ \A a \in DOMAIN m_args.agents : RefFeasible(RefBareArgs(m_args, a))
    /\ m_result.reason = "Exceeded max rounds"
    /\ Len(m_history) >= 2

\* The i-th round held its auction, received a bid and called cbs_search,
\* which returned no solution.
RefRoundFailed(i) ==
    /\ m_history[i].bids # <<>>
    /\ Len(m_calls) >= i + 1
    /\ m_calls[i + 1].round = i
    /\ m_calls[i + 1].outcome.returned
    /\ ~Truthy(m_calls[i + 1].outcome.value)

\* C21: multi_round_auction runs at most max_rounds rounds: the history holds
\* one record per round that held its auction, with round ids 1, 2, ..., k
\* in order and k <= max_rounds; a round is entered only after every round
\* before it received a bid and had its cbs_search call fail; the outcome
\* "Exceeded max rounds" is returned only after exactly max_rounds such
\* rounds, and the history of the outcome "No bidders" ends with the round
\* that received no bid, every round before it having received one.
C21_RoundsBounded ==
    /\ Len(m_history) <= m_args.max_rounds
    /\ \A i \in DOMAIN m_history : m_history[i].round = i
    /\ m_pc = "round" =>
          /\ m_round_id = Len(m_history) + 1
          /\ \A i \in DOMAIN m_history : RefRoundFailed(i)
    /\ (AuctionReturned /\ "auctions" \in m_result.keys) =>
          m_result.auctions = m_history
    /\ (AuctionReturned /\ m_result.reason = "Exceeded max rounds") =>
          /\ Len(m_history) = m_args.max_rounds
          /\ Len(m_calls) = m_args.max_rounds + 1
          /\ \A i \in DOMAIN m_history : RefRoundFailed(i)
    /\ (AuctionReturned /\ m_result.reason = "No bidders") =>
          /\ m_history # <<>>
          /\ m_history[Len(m_history)].bids = <<>>
          /\ Len(m_calls) = Len(m_history)
          /\ \A i \in 1 .. (Len(m_history) - 1) : RefRoundFailed(i)

\* C21's case: a call with max_rounds = 2 that ran out of rounds after two
\* rounds of bids and three cbs_search calls.
C21_Witness ==
    /\ AuctionReturned
    /\ m_result.reason = "Exceeded max rounds"
    /\ m_args.max_rounds = 2
    /\ Len(m_result.auctions) = 2
    /\ Len(m_calls) = 3

(***************************************************************************)
(* The Airspace container of src/airspace/airspace.py.                     *)
(*                                                                         *)
(* A Position is <<x, y>>.  A CellInfo is a record of its fields; metadata *)
(* is never passed by the calls of the model and stays the empty dict, so  *)
(* the record leaves it out.  _grid is a dict: its keys in insertion order *)
(* and the layer of each key; a layer is a function from the cells to      *)
(* their CellInfo.  A method is an operator from the object to what it     *)
(* raised ("none": it returned) and the object it leaves behind.           *)
(***************************************************************************)
OPEN == "."
STATIC_OBSTACLE == "#"
DYNAMIC_OBSTACLE == "*"
CellState == {OPEN, STATIC_OBSTACLE, DYNAMIC_OBSTACLE}

Position(x, y) == <<x, y>>

CellInfo(position, state, timestamp, agent_id) ==
    [position |-> position, state |-> state, timestamp |-> timestamp,
     agent_id |-> agent_id]

\* The cells of a width x height airspace, in the order __init__ inserts them.
CellOrder(width, height) ==
    [i \in 1..(width * height) |-> Position((i - 1) \div height, (i - 1) % height)]

Airspace(width, height, max_time) ==
    LET order == CellOrder(width, height)
        cells == {order[i] : i \in DOMAIN order}
    IN  [width |-> width, height |-> height, max_time |-> max_time,
         grid |-> [keys |-> <<0>>,
                   layers |-> (0 :> [pos \in cells |-> CellInfo(pos, OPEN, 0, NoAgent)])],
         static_obstacles |-> {}]

Raised(exception, self) == [raised |-> exception, self |-> self]

Returned(self) == Raised("none", self)

\* _validate_position and _validate_timestamp: what they raise.
validate_position(self, position) ==
    IF position[1] >= self.width \/ position[2] >= self.height
    THEN "AirspaceValidationError"
    ELSE "none"

validate_timestamp(self, timestamp) ==
    IF timestamp < 0 THEN "ValueError"
    ELSE IF timestamp > self.max_time THEN "ValueError"
    ELSE "none"

LatestOf(times) == CHOOSE t \in times : \A u \in times : u <= t

ensure_time_exists(self, timestamp) ==
    IF timestamp \in DOMAIN self.grid.layers THEN self
    ELSE
        LET layers == self.grid.layers
            prev_time == LatestOf({t \in DOMAIN layers : t < timestamp})
            copied == [pos \in DOMAIN layers[prev_time] |->
                          [layers[prev_time][pos] EXCEPT !.timestamp = timestamp]]
        IN  [self EXCEPT !.grid =
                [keys |-> Append(self.grid.keys, timestamp),
                 layers |-> [t \in DOMAIN layers \cup {timestamp} |->
                               IF t = timestamp THEN copied ELSE layers[t]]]]

\* get_cell_state: what it raises and, when it returns, the state it returns.
get_cell_state(self, position, timestamp) ==
    IF validate_position(self, position) # "none"
    THEN [raised |-> validate_position(self, position), value |-> ""]
    ELSE IF validate_timestamp(self, timestamp) # "none"
    THEN [raised |-> validate_timestamp(self, timestamp), value |-> ""]
    ELSE
        LET layers == self.grid.layers
            available_times == {t \in DOMAIN layers : t <= timestamp}
        IN  IF timestamp \in DOMAIN layers
            THEN [raised |-> "none", value |-> layers[timestamp][position].state]
            ELSE IF available_times = {}
            THEN [raised |-> "ValueError", value |-> ""]
            ELSE [raised |-> "none",
                  value |-> layers[LatestOf(available_times)][position].state]

set_cell_state(self, position, state, timestamp, agent_id) ==
    IF validate_position(self, position) # "none"
    THEN Raised(validate_position(self, position), self)
    ELSE IF validate_timestamp(self, timestamp) # "none"
    THEN Raised(validate_timestamp(self, timestamp), self)
    ELSE IF state \notin CellState
    THEN Raised("TypeError", self)
    ELSE IF position \in self.static_obstacles /\ state # STATIC_OBSTACLE
    THEN Raised("AirspaceValidationError", self)
    ELSE
        LET ensured == ensure_time_exists(self, timestamp)
            updated == [ensured EXCEPT !.grid.layers[timestamp][position] =
                           CellInfo(position, state, timestamp, agent_id)]
        IN  IF state = STATIC_OBSTACLE
            THEN Returned([updated EXCEPT !.static_obstacles = @ \cup {position}])
            ELSE Returned(updated)

\* add_static_obstacle, had it marked the cell in the layer of time 0 alone.
add_static_obstacleAtZero(self, position) ==
    IF validate_position(self, position) # "none"
    THEN Raised(validate_position(self, position), self)
    ELSE Returned([self EXCEPT
            !.grid.layers[0][position] = CellInfo(position, STATIC_OBSTACLE, 0, NoAgent),
            !.static_obstacles = @ \cup {position}])

add_static_obstacle(self, position) ==
    IF validate_position(self, position) # "none"
    THEN Raised(validate_position(self, position), self)
    ELSE Returned([self EXCEPT
            !.grid.layers = [timestamp \in DOMAIN @ |->
                [@[timestamp] EXCEPT ![position] =
                    CellInfo(position, STATIC_OBSTACLE, timestamp, NoAgent)]],
            !.static_obstacles = @ \cup {position}])

\* add_dynamic_path, its first loop: what the validation of the path raises.
RECURSIVE PathValidation(_, _, _)
PathValidation(self, path, i) ==
    IF i > Len(path) THEN "none"
    ELSE
        LET pos == path[i][1]
            timestamp == path[i][2]
        IN  IF validate_position(self, pos) # "none"
            THEN validate_position(self, pos)
            ELSE IF validate_timestamp(self, timestamp) # "none"
            THEN validate_timestamp(self, timestamp)
            ELSE IF pos \in self.static_obstacles
            THEN "AirspaceValidationError"
            ELSE PathValidation(self, path, i + 1)

\* add_dynamic_path, its second loop, from the i-th entry of the path on.
RECURSIVE PathApply(_, _, _, _)
PathApply(self, path, agent_id, i) ==
    IF i > Len(path) THEN Returned(self)
    ELSE
        LET pos == path[i][1]
            timestamp == path[i][2]
            ensured == ensure_time_exists(self, timestamp)
            current_cell == ensured.grid.layers[timestamp][pos]
        IN  IF current_cell.state = DYNAMIC_OBSTACLE /\ current_cell.agent_id # agent_id
            THEN Raised("AirspaceValidationError", ensured)
            ELSE
                LET set == set_cell_state(ensured, pos, DYNAMIC_OBSTACLE, timestamp,
                                          agent_id)
                IN  IF set.raised # "none" THEN set
                    ELSE PathApply(set.self, path, agent_id, i + 1)

\* An agent id of "" is the empty string; a path of <<>> is the empty list.
add_dynamic_path(self, path, agent_id) ==
    IF agent_id = "" THEN Raised("ValueError", self)
    ELSE IF path = <<>> THEN Raised("ValueError", self)
    ELSE IF PathValidation(self, path, 1) # "none"
    THEN Raised(PathValidation(self, path, 1), self)
    ELSE PathApply(self, path, agent_id, 1)

\* remove_dynamic_path, its loops flattened: the k-th key of _grid and the
\* i-th cell of its layer, both in the dicts' insertion order.
RECURSIVE RemoveFrom(_, _, _, _)
RemoveFrom(self, agent_id, k, i) ==
    LET order == CellOrder(self.width, self.height)
    IN  IF k > Len(self.grid.keys) THEN Returned(self)
        ELSE IF i > Len(order) THEN RemoveFrom(self, agent_id, k + 1, 1)
        ELSE
            LET timestamp == self.grid.keys[k]
                pos == order[i]
                cell_info == self.grid.layers[timestamp][pos]
            IN  IF cell_info.state = DYNAMIC_OBSTACLE /\ cell_info.agent_id = agent_id
                THEN LET set == set_cell_state(self, pos, OPEN, timestamp, NoAgent)
                     IN  IF set.raised # "none" THEN set
                         ELSE RemoveFrom(set.self, agent_id, k, i + 1)
                ELSE RemoveFrom(self, agent_id, k, i + 1)

remove_dynamic_path(self, agent_id) ==
    IF agent_id = "" THEN Raised("ValueError", self)
    ELSE RemoveFrom(self, agent_id, 1, 1)

\* import_config, its last loop, from the i-th static obstacle of the config on.
RECURSIVE ImportFrom(_, _, _)
ImportFrom(self, static_obstacles, i) ==
    IF i > Len(static_obstacles) THEN Returned(self)
    ELSE LET added == add_static_obstacle(self, static_obstacles[i])
         IN  IF added.raised # "none" THEN added
             ELSE ImportFrom(added.self, static_obstacles, i + 1)

\* A config is the set of its keys and the values of the keys the code reads.
import_config(self, config) ==
    IF ~({"width", "height", "max_time", "static_obstacles"} \subseteq config.keys)
    THEN Raised("ValueError", self)
    ELSE IF config.width # self.width \/ config.height # self.height
    THEN Raised("ValueError", self)
    ELSE ImportFrom(self, config.static_obstacles, 1)

\* The cells a run of add_static_obstacle calls was applied to before one of
\* them raised.
RECURSIVE AppliedPrefix(_, _, _)
AppliedPrefix(self, static_obstacles, i) ==
    IF i > Len(static_obstacles) THEN {}
    ELSE IF validate_position(self, static_obstacles[i]) # "none" THEN {}
    ELSE {static_obstacles[i]} \cup AppliedPrefix(self, static_obstacles, i + 1)

(***************************************************************************)
(* The calls made on one Airspace.  The airspaces, cells, timestamps and   *)
(* paths the calls are drawn from hold every case of the validations: a    *)
(* cell outside the grid, a timestamp below 0 and one above max_time.      *)
(***************************************************************************)
AirspaceCatalog == {Airspace(1, 1, 2), Airspace(2, 1, 1)}

SomePositions(self) ==
    {Position(x, y) : x \in 0..self.width, y \in 0..(self.height - 1)}

SomeTimestamps(self) == (-1)..(self.max_time + 1)

AgentIds == {"a", "b"}

\* The paths of one entry, and those of two entries at valid timestamps.
SomePaths(self) ==
    LET entries == SomePositions(self) \X SomeTimestamps(self)
        valid == {e \in entries : validate_timestamp(self, e[2]) = "none"}
    IN  {<<>>} \cup {<<e>> : e \in entries} \cup {<<e, f>> : e \in valid, f \in valid}

Config(keys, width, height, static_obstacles) ==
    [keys |-> keys, width |-> width, height |-> height,
     static_obstacles |-> static_obstacles]

\* The configs of the airspace's own size with up to two static obstacles, one
\* config that lacks a key and one of another size.
SomeConfigs(self) ==
    LET keys == {"width", "height", "max_time", "static_obstacles"}
        lists == {<<>>} \cup {<<p>> : p \in SomePositions(self)}
                        \cup {<<p, q>> : p \in SomePositions(self),
                                         q \in SomePositions(self)}
    IN  {Config(keys, self.width, self.height, list) : list \in lists}
        \cup {Config(keys \ {"max_time"}, self.width, self.height,
                     <<Position(0, 0)>>),
              Config(keys, self.width + 1, self.height, <<Position(0, 0)>>)}

Call(op, positions, state, timestamps, agent_id, raised) ==
    [op |-> op, positions |-> positions, state |-> state, timestamps |-> timestamps,
     agent_id |-> agent_id, raised |-> raised]

InitAirspace ==
    /\ s_self \in AirspaceCatalog
    /\ s_last = NoCall
    /\ s_added = {}
    /\ AstarUnused
    /\ CbsUnused
    /\ DetectUnused
    /\ AuctionUnused
    /\ CoreUnused

SetCellState(position, state, timestamp, agent_id) ==
    LET call == set_cell_state(s_self, position, state, timestamp, agent_id)
    IN  /\ s_self' = call.self
        /\ s_last' = Call("set_cell_state", <<position>>, state, <<timestamp>>, agent_id,
                          call.raised)
        /\ UNCHANGED <<s_added, not_s>>

AddStaticObstacle(position) ==
    LET call == add_static_obstacle(s_self, position)
    IN  /\ s_self' = call.self
        /\ s_last' = Call("add_static_obstacle", <<position>>, "", <<>>, NoAgent,
                          call.raised)
        /\ s_added' = IF call.raised = "none" THEN s_added \cup {position} ELSE s_added
        /\ UNCHANGED not_s

AddDynamicPath(path, agent_id) ==
    LET call == add_dynamic_path(s_self, path, agent_id)
    IN  /\ s_self' = call.self
        /\ s_last' = Call("add_dynamic_path", [i \in DOMAIN path |-> path[i][1]], "",
                          [i \in DOMAIN path |-> path[i][2]], agent_id, call.raised)
        /\ UNCHANGED <<s_added, not_s>>

RemoveDynamicPath(agent_id) ==
    LET call == remove_dynamic_path(s_self, agent_id)
    IN  /\ s_self' = call.self
        /\ s_last' = Call("remove_dynamic_path", <<>>, "", <<>>, agent_id, call.raised)
        /\ UNCHANGED <<s_added, not_s>>

ImportConfig(config) ==
    LET call == import_config(s_self, config)
    IN  /\ s_self' = call.self
        /\ s_last' = Call("import_config", config.static_obstacles, "", <<>>, NoAgent,
                          call.raised)
        /\ s_added' = IF call.self = s_self /\ call.raised # "none" THEN s_added
                      ELSE s_added \cup AppliedPrefix(s_self, config.static_obstacles, 1)
        /\ UNCHANGED not_s

\* A dynamic obstacle is set for an agent, any other state for no agent.
NextAirspace ==
    \/ \E position \in SomePositions(s_self), state \in CellState,
          timestamp \in SomeTimestamps(s_self) :
          SetCellState(position, state, timestamp,
                       IF state = DYNAMIC_OBSTACLE THEN "a" ELSE NoAgent)
    \/ \E position \in SomePositions(s_self) : AddStaticObstacle(position)
    \/ \E path \in SomePaths(s_self), agent_id \in AgentIds :
          AddDynamicPath(path, agent_id)
    \/ AddDynamicPath(<<<<Position(0, 0), 0>>>>, "")
    \/ \E agent_id \in AgentIds \cup {""} : RemoveDynamicPath(agent_id)
    \/ \E config \in SomeConfigs(s_self) : ImportConfig(config)

SpecAirspace == InitAirspace /\ [][NextAirspace]_vars

(***************************************************************************)
(* Static obstacles of the Airspace.                                       *)
(***************************************************************************)
RefPathCells(path) == {path[i][1] : i \in DOMAIN path}

RefValidTimestamps(self) ==
    {t \in SomeTimestamps(self) : validate_timestamp(self, t) = "none"}

\* set_cell_state(p, s, t) raises the exception and leaves the object as it
\* is, whatever s other than STATIC_OBSTACLE and whatever agent id it is given.
RefSetRefused(p, t, exception) ==
    \A s \in CellState \ {STATIC_OBSTACLE}, agent_id \in AgentIds \cup {NoAgent} :
        set_cell_state(s_self, p, s, t, agent_id) = Raised(exception, s_self)

\* Every add_dynamic_path through p raises and leaves the object as it is.
RefPathsRejected(p) ==
    \A path \in SomePaths(s_self), agent_id \in AgentIds \cup {""} :
        p \in RefPathCells(path)
            => /\ add_dynamic_path(s_self, path, agent_id).raised # "none"
               /\ add_dynamic_path(s_self, path, agent_id).self = s_self

\* get_cell_state(p, t) is STATIC_OBSTACLE at every valid timestamp t.
RefStaysStatic(p) ==
    \A t \in RefValidTimestamps(s_self) :
        get_cell_state(s_self, p, t) = [raised |-> "none", value |-> STATIC_OBSTACLE]

\* C19, as the spec states it: once add_static_obstacle(p) has been called,
\* every set_cell_state(p, s, t) with s other than STATIC_OBSTACLE raises
\* AirspaceValidationError and leaves the grid unchanged, every
\* add_dynamic_path through p is rejected, and get_cell_state(p, t) is
\* STATIC_OBSTACLE for every valid timestamp t.
C19_StaticObstacleFrozen ==
    \A p \in s_added :
        /\ \A t \in SomeTimestamps(s_self) :
              RefSetRefused(p, t, "AirspaceValidationError")
        /\ RefPathsRejected(p)
        /\ RefStaysStatic(p)

\* C19, amended: as above, where set_cell_state raises AirspaceValidationError
\* at a valid timestamp t (0 <= t <= max_time) and ValueError at any other,
\* the grid unchanged in both cases.
C19_StaticObstacleFrozenAtValidTimes ==
    \A p \in s_added :
        /\ \A t \in SomeTimestamps(s_self) :
              RefSetRefused(p, t, IF t \in RefValidTimestamps(s_self)
                                  THEN "AirspaceValidationError" ELSE "ValueError")
        /\ RefPathsRejected(p)
        /\ RefStaysStatic(p)

\* A set_cell_state(p, OPEN, t) at a valid t has just been refused on a cell p
\* that add_static_obstacle made static, in an airspace of more than one layer
\* whose other cell holds a dynamic obstacle at time 0.
C19_Witness ==
    /\ s_last.op = "set_cell_state"
    /\ s_last.positions[1] \in s_added
    /\ s_last.state = OPEN
    /\ s_last.timestamps[1] \in RefValidTimestamps(s_self)
    /\ s_last.raised = "AirspaceValidationError"
    /\ s_self.width > 1
    /\ Len(s_self.grid.keys) > 1
    /\ \E q \in DOMAIN s_self.grid.layers[0] :
          s_self.grid.layers[0][q].state = DYNAMIC_OBSTACLE

(***************************************************************************)
(* Rejected dynamic paths.                                                 *)
(***************************************************************************)
\* The path names a cell outside the grid, a timestamp outside 0..max_time
\* or a static obstacle.
RefPathInvalid(self, path) ==
    \E i \in DOMAIN path :
        \/ path[i][1][1] >= self.width
        \/ path[i][1][2] >= self.height
        \/ path[i][2] < 0
        \/ path[i][2] > self.max_time
        \/ path[i][1] \in self.static_obstacles

\* C22: add_dynamic_path is all-or-nothing: whenever it raises, for a cell
\* out of bounds, an invalid timestamp, a static obstacle or a cell held at
\* that time by another agent's dynamic path, the airspace is left exactly
\* as before the call: no cell marked, no layer created.
C22_AllOrNothing ==
    \A path \in SomePaths(s_self), agent_id \in AgentIds \cup {""} :
        add_dynamic_path(s_self, path, agent_id).raised # "none"
            => add_dynamic_path(s_self, path, agent_id).self = s_self

\* C22, the part that holds: a path rejected for a cell out of bounds, an
\* invalid timestamp or a static obstacle leaves the airspace as it was.
C22_InvalidPathLeavesAirspace ==
    \A path \in SomePaths(s_self), agent_id \in AgentIds :
        RefPathInvalid(s_self, path)
            => /\ add_dynamic_path(s_self, path, agent_id).raised # "none"
               /\ add_dynamic_path(s_self, path, agent_id).self = s_self

\* C22's failing case: add_dynamic_path has just raised on the second entry
\* of its path, a cell that another agent holds at that time, and the cell
\* of its first entry is marked for the agent of the rejected path.
C22_PartialWrite ==
    /\ s_last.op = "add_dynamic_path"
    /\ s_last.raised = "AirspaceValidationError"
    /\ Len(s_last.positions) = 2
    /\ s_last.positions[1] # s_last.positions[2]
    /\ \A i \in 1..2 : /\ s_last.timestamps[i] \in DOMAIN s_self.grid.layers
                        /\ s_last.positions[i] \in DOMAIN s_self.grid.layers[0]
    /\ LET first == s_self.grid.layers[s_last.timestamps[1]][s_last.positions[1]]
           second == s_self.grid.layers[s_last.timestamps[2]][s_last.positions[2]]
       IN  /\ first.state = DYNAMIC_OBSTACLE
           /\ first.agent_id = s_last.agent_id
           /\ second.state = DYNAMIC_OBSTACLE
           /\ second.agent_id # s_last.agent_id

(***************************************************************************)
(* The occupancy model of src/airspace/core.py.  Its class is Airspace     *)
(* too: the names of its constructor and of the methods that airspace.py   *)
(* has as well carry the prefix Core or core_.  A cell is <<x, y>>;        *)
(* dynamic_occupancy is a function from the times below time_horizon to    *)
(* sets of cells.  Every exception of the class is a ValueError.           *)
(***************************************************************************)
CoreAirspace(width, height, time_horizon) ==
    [width |-> width, height |-> height, time_horizon |-> time_horizon,
     static_obstacles |-> {},
     dynamic_occupancy |-> [t \in 0 .. (time_horizon - 1) |-> {}]]

\* _validate_position and _validate_time: whether they return.
core_validate_position(self, x, y) ==
    0 <= x /\ x < self.width /\ 0 <= y /\ y < self.height

validate_time(self, t) == 0 <= t /\ t < self.time_horizon

core_add_static_obstacle(self, x, y) ==
    IF ~core_validate_position(self, x, y) THEN Raised("ValueError", self)
    ELSE IF <<x, y>> \in self.static_obstacles THEN Raised("ValueError", self)
    ELSE Returned([self EXCEPT !.static_obstacles = @ \cup {<<x, y>>}])

remove_static_obstacle(self, x, y) ==
    IF ~core_validate_position(self, x, y) THEN Raised("ValueError", self)
    ELSE IF <<x, y>> \notin self.static_obstacles THEN Raised("ValueError", self)
    ELSE Returned([self EXCEPT !.static_obstacles = @ \ {<<x, y>>}])

add_dynamic_occupancy(self, x, y, t) ==
    IF ~core_validate_position(self, x, y) THEN Raised("ValueError", self)
    ELSE IF ~validate_time(self, t) THEN Raised("ValueError", self)
    ELSE IF <<x, y>> \in self.static_obstacles THEN Raised("ValueError", self)
    ELSE IF <<x, y>> \in self.dynamic_occupancy[t] THEN Raised("ValueError", self)
    ELSE Returned([self EXCEPT !.dynamic_occupancy[t] = @ \cup {<<x, y>>}])

remove_dynamic_occupancy(self, x, y, t) ==
    IF ~core_validate_position(self, x, y) THEN Raised("ValueError", self)
    ELSE IF ~validate_time(self, t) THEN Raised("ValueError", self)
    ELSE IF <<x, y>> \notin self.dynamic_occupancy[t] THEN Raised("ValueError", self)
    ELSE Returned([self EXCEPT !.dynamic_occupancy[t] = @ \ {<<x, y>>}])

\* is_occupied: what it raises and, when it returns, the value it returns.
is_occupied(self, x, y, t) ==
    IF ~core_validate_position(self, x, y) THEN [raised |-> "ValueError", value |-> FALSE]
    ELSE IF ~validate_time(self, t) THEN [raised |-> "ValueError", value |-> FALSE]
    ELSE [raised |-> "none",
          value |-> <<x, y>> \in self.static_obstacles
                        \/ <<x, y>> \in self.dynamic_occupancy[t]]

(***************************************************************************)
(* The calls made on one Airspace of core.py, their coordinates and times  *)
(* reaching one step beyond the grid and the horizon on either side.       *)
(***************************************************************************)
CoreCatalog == {CoreAirspace(2, 1, 2), CoreAirspace(1, 2, 1)}

SomeXs(self) == (-1) .. self.width

SomeYs(self) == (-1) .. self.height

SomeTimes(self) == (-1) .. self.time_horizon

CoreCall(op, x, y, t, raised) == [op |-> op, x |-> x, y |-> y, t |-> t, raised |-> raised]

InitCore ==
    /\ o_self \in CoreCatalog
    /\ o_last = NoCoreCall
    /\ AstarUnused
    /\ CbsUnused
    /\ DetectUnused
    /\ AuctionUnused
    /\ AirspaceUnused

CoreAddStaticObstacle(x, y) ==
    LET call == core_add_static_obstacle(o_self, x, y)
    IN  /\ o_self' = call.self
        /\ o_last' = CoreCall("add_static_obstacle", x, y, 0, call.raised)
        /\ UNCHANGED not_o

RemoveStaticObstacle(x, y) ==
    LET call == remove_static_obstacle(o_self, x, y)
    IN  /\ o_self' = call.self
        /\ o_last' = CoreCall("remove_static_obstacle", x, y, 0, call.raised)
        /\ UNCHANGED not_o

AddDynamicOccupancy(x, y, t) ==
    LET call == add_dynamic_occupancy(o_self, x, y, t)
    IN  /\ o_self' = call.self
        /\ o_last' = CoreCall("add_dynamic_occupancy", x, y, t, call.raised)
        /\ UNCHANGED not_o

RemoveDynamicOccupancy(x, y, t) ==
    LET call == remove_dynamic_occupancy(o_self, x, y, t)
    IN  /\ o_self' = call.self
        /\ o_last' = CoreCall("remove_dynamic_occupancy", x, y, t, call.raised)
        /\ UNCHANGED not_o

NextCore ==
    \/ \E x \in SomeXs(o_self), y \in SomeYs(o_self) : CoreAddStaticObstacle(x, y)
    \/ \E x \in SomeXs(o_self), y \in SomeYs(o_self) : RemoveStaticObstacle(x, y)
    \/ \E x \in SomeXs(o_self), y \in SomeYs(o_self), t \in SomeTimes(o_self) :
          AddDynamicOccupancy(x, y, t)
    \/ \E x \in SomeXs(o_self), y \in SomeYs(o_self), t \in SomeTimes(o_self) :
          RemoveDynamicOccupancy(x, y, t)

SpecCore == InitCore /\ [][NextCore]_vars

(***************************************************************************)
(* Static obstacles and dynamic occupancy of core.py.                      *)
(***************************************************************************)
RefDisjoint(self) ==
    \A t \in DOMAIN self.dynamic_occupancy :
        self.static_obstacles \cap self.dynamic_occupancy[t] = {}

\* C23: after any sequence of add_static_obstacle, remove_static_obstacle,
\* add_dynamic_occupancy and remove_dynamic_occupancy calls, no cell is at
\* once a static obstacle and dynamically occupied at some time t:
\* static_obstacles and dynamic_occupancy[t] are disjoint for every t in
\* [0, time_horizon).
C23_StaticAndDynamicDisjoint == RefDisjoint(o_self)

\* C23, the part that holds: a call that raises leaves the object as it is,
\* and the only call that makes a cell both static and occupied is an
\* add_static_obstacle that returns.
C23_OnlyStaticAdditionOverlaps ==
    [][/\ o_last'.raised # "none" => o_self' = o_self
       /\ (RefDisjoint(o_self) /\ ~RefDisjoint(o_self'))
             => /\ o_last'.op = "add_static_obstacle"
                /\ o_last'.raised = "none"]_vars

\* C23's failing case: add_static_obstacle has just returned for a cell that
\* is dynamically occupied at some time, so that the cell is both.
C23_Overlap ==
    /\ o_last.op = "add_static_obstacle"
    /\ o_last.raised = "none"
    /\ <<o_last.x, o_last.y>> \in o_self.static_obstacles
    /\ \E t \in DOMAIN o_self.dynamic_occupancy :
          /\ <<o_last.x, o_last.y>> \in o_self.dynamic_occupancy[t]
          /\ is_occupied(o_self, o_last.x, o_last.y, t) = [raised |-> "none", value |-> TRUE]

====
